---------------------------- MODULE Spec2Model ----------------------------
(***************************************************************************)
(* Model of the chunking engine of backend/app/services/document_parser.py *)
(* (OptimizedDocumentParser): the chunk segmenter                          *)
(* _split_text_with_overlap / _split_by_characters, the image distributor  *)
(* _distribute_images_to_chunks and the chunk factory _create_chunk.       *)
(*                                                                         *)
(* A Python str is a sequence of one-character strings; len() is Len.      *)
(* Python indices are 0-based, TLA+ sequences 1-based: the helpers below   *)
(* take and return Python indices.  A character that TLA+ strings cannot  *)
(* hold is named: BACKTICK, CJK_PERIOD, CJK_EXCLAMATION, CJK_QUESTION.     *)
(***************************************************************************)
EXTENDS Integers, Sequences, FiniteSets, TLC

VARIABLES
    config,              \* ChunkingConfig of the parser (self.config)
    source_file,         \* argument source_file
    section,             \* argument section
    page_number,         \* argument page_number
    text,                \* argument text: the section's joined text
    images,              \* argument images: the section's image list
    pc,                  \* position in the parse
    code_blocks,         \* local code_blocks of _split_text_with_overlap
    paragraphs,          \* paragraphs still to be visited by the for loop
    current_chunk_text,  \* local current_chunk_text (the buffer)
    current_length,      \* local current_length
    chunks,              \* local chunks: the chunk list built so far
    remaining_images,    \* orphan images handed to the distributor
    seeds,               \* history: per chunk, the overlap unit its buffer was seeded with
    current_seed,        \* history: the overlap unit the open buffer was seeded with
    run,                 \* history: which parse of the same input this is (1 or 2)
    first_chunks,        \* history: the chunk list the first parse returned
    window_start,        \* local start of _split_by_characters
    win_iterations,      \* history: how often the body of its while loop has run
    windows,             \* history: the [start, end] of every window of the loop
    kind,                \* the adapter parse dispatches to: "docx", "pdf" or "md"
    elements,            \* the element stream the docx or pdf adapter has read
    extracted_images,    \* pdf: the image files globbed from the image sink
    content,             \* the content of the file: md text, or the blocks of a docx body
    disk,                \* md: the paths that exist on disk
    sink,                \* the files in image_output_dir
    jobs,                \* the parse calls under way, each with its locals
    directory,           \* parse_directory: the files of dir_path
    extensions,          \* parse_directory: argument extensions
    ext_index,           \* parse_directory: place of the outer for loop in extensions
    listing,             \* parse_directory: the files the running glob has yet to yield
    all_chunks,          \* parse_directory: local all_chunks
    visited,             \* history: the files parse was called for, in order
    collection,          \* the entities of the vector store's collection
    replace_existing,    \* index_chunks: argument replace_existing
    pending              \* index_chunks: the source files the delete loop has yet to visit

vars == <<config, source_file, section, page_number, text, images, pc,
          code_blocks, paragraphs, current_chunk_text, current_length,
          chunks, remaining_images, seeds, current_seed, run, first_chunks,
          window_start, win_iterations, windows,
          kind, elements, extracted_images, content, disk,
          sink, jobs,
          directory, extensions, ext_index, listing, all_chunks, visited,
          collection, replace_existing, pending>>

----------------------------------------------------------------------------
(* Bounds of the model *)

MaxPieces == 4
MaxOverlap == 1
MaxOrphans == 2
MaxIdPieces == 3
MaxDistChunks == 4
MaxDistImages == 5

----------------------------------------------------------------------------
(* Python str helpers *)

Min(a, b) == IF a <= b THEN a ELSE b
Max(a, b) == IF a >= b THEN a ELSE b

\* a slice index as Python reads it: a negative one counts from the end, and
\* both kinds are clamped to 0 .. n
SliceIndex(i, n) == IF i < 0 THEN Max(i + n, 0) ELSE Min(i, n)

\* s[a:b]
Slice(s, a, b) ==
    LET lo == SliceIndex(a, Len(s))
        hi == SliceIndex(b, Len(s))
    IN  IF lo >= hi THEN <<>> ELSE SubSeq(s, lo + 1, hi)

\* s[:n]
Take(s, n) == Slice(s, 0, n)

\* s.startswith(p)
StartsWith(s, p) == Len(p) <= Len(s) /\ SubSeq(s, 1, Len(p)) = p

\* s.endswith(p)
EndsWith(s, p) == Len(p) <= Len(s) /\ SubSeq(s, Len(s) - Len(p) + 1, Len(s)) = p

\* the indices >= from at which pat occurs in s
Occurrences(s, pat, from) ==
    {i \in from..(Len(s) - Len(pat)) : SubSeq(s, i + 1, i + Len(pat)) = pat}

\* s.find(pat, from): the lowest index >= from at which pat occurs, -1 if none
Find(s, pat, from) ==
    LET at == Occurrences(s, pat, from)
    IN  IF at = {} THEN -1 ELSE CHOOSE i \in at : \A j \in at : i <= j

\* s.rfind(sep) for a one-character sep: the highest index holding it, -1 if none
RFind(s, sep) ==
    LET at == Occurrences(s, <<sep>>, 0)
    IN  IF at = {} THEN -1 ELSE CHOOSE i \in at : \A j \in at : i >= j

\* s.replace(pat, rep): every non-overlapping occurrence, left to right
RECURSIVE Replace(_, _, _)
Replace(s, pat, rep) ==
    LET at == Find(s, pat, 0)
    IN  IF at = -1 THEN s
        ELSE SubSeq(s, 1, at) \o rep
             \o Replace(SubSeq(s, at + Len(pat) + 1, Len(s)), pat, rep)

\* s.split(sep) for a one-character sep
RECURSIVE Split(_, _)
Split(s, sep) ==
    LET at == Find(s, <<sep>>, 0)
    IN  IF at = -1 THEN <<s>>
        ELSE <<SubSeq(s, 1, at)>> \o Split(SubSeq(s, at + 2, Len(s)), sep)

\* the characters str.strip() removes
Whitespace == {" ", "\n", "\t", "\r"}

RECURSIVE LStrip(_)
LStrip(s) ==
    IF s # <<>> /\ s[1] \in Whitespace THEN LStrip(Tail(s)) ELSE s

RECURSIVE RStrip(_)
RStrip(s) ==
    IF s # <<>> /\ s[Len(s)] \in Whitespace
    THEN RStrip(SubSeq(s, 1, Len(s) - 1)) ELSE s

\* s.strip()
Strip(s) == RStrip(LStrip(s))

\* sep.join(parts)
RECURSIVE Join(_, _)
Join(parts, sep) ==
    IF parts = <<>> THEN <<>>
    ELSE IF Len(parts) = 1 THEN parts[1]
    ELSE parts[1] \o sep \o Join(Tail(parts), sep)

\* the list concatenated (join with the empty separator)
Concat(parts) == Join(parts, <<>>)

DigitChars == <<"0", "1", "2", "3", "4", "5", "6", "7", "8", "9">>

\* str(n) for n >= 0
RECURSIVE Digits(_)
Digits(n) ==
    IF n < 10 THEN <<DigitChars[n + 1]>>
    ELSE Digits(n \div 10) \o <<DigitChars[(n % 10) + 1]>>

DigitValue(c) == CHOOSE d \in 0..9 : DigitChars[d + 1] = c

IsDigit(c) == \E d \in 1..10 : DigitChars[d] = c

\* int(s) for a string of the model's alphabet: the decimal value of a
\* non-empty all-digit string, -1 standing for ValueError
RECURSIVE ParseDigits(_, _)
ParseDigits(s, acc) ==
    IF s = <<>> THEN acc
    ELSE ParseDigits(Tail(s), acc * 10 + DigitValue(s[1]))

ParseInt(s) ==
    IF s # <<>> /\ \A i \in 1..Len(s) : IsDigit(s[i])
    THEN ParseDigits(s, 0) ELSE -1

Last(s) == s[Len(s)]


----------------------------------------------------------------------------
(* Fenced code protection: _split_text_with_overlap, first step *)

\* the triple backtick delimiting a fenced region
Fence == <<"BACKTICK", "BACKTICK", "BACKTICK">>

PlaceholderPrefix == <<"_", "_", "C", "O", "D", "E", "_", "B", "L", "O", "C", "K", "_">>

PlaceholderSuffix == <<"_", "_">>

\* f"__CODE_BLOCK_{i}__"
Placeholder(i) == PlaceholderPrefix \o Digits(i) \o PlaceholderSuffix

\* re.sub(code_block_pattern, protect_code_block, text), scanning from index i:
\* the pattern is a fence, the fewest characters of any kind, a fence.  The
\* leftmost fence that a later fence follows opens a match, closed by the
\* nearest such fence; the match is replaced by the placeholder of its index
\* and the scan goes on after it.  Every other character is copied.
RECURSIVE ProtectFrom(_, _, _, _)
ProtectFrom(t, i, out, blocks) ==
    LET open  == Find(t, Fence, i)
        close == IF open = -1 THEN -1 ELSE Find(t, Fence, open + Len(Fence))
    IN  IF close = -1
        THEN [protected_text |-> out \o Slice(t, i, Len(t)), code_blocks |-> blocks]
        ELSE ProtectFrom(t, close + Len(Fence),
                         out \o Slice(t, i, open) \o Placeholder(Len(blocks)),
                         Append(blocks, Slice(t, open, close + Len(Fence))))

ProtectCodeBlocks(t) == ProtectFrom(t, 0, <<>>, <<>>)

\* restore_code_blocks: placeholder i replaced by code block i, for i = 0, 1, ...
RECURSIVE RestoreFrom(_, _, _)
RestoreFrom(t, blocks, i) ==
    IF i >= Len(blocks) THEN t
    ELSE RestoreFrom(Replace(t, Placeholder(i), blocks[i + 1]), blocks, i + 1)

restore_code_blocks(t, blocks) == RestoreFrom(t, blocks, 0)

----------------------------------------------------------------------------
(* Chunk factory: _create_chunk *)

\* the characters of the model, in a fixed order: the code of a character is its place
Alphabet == <<"a", "b", "\n", " ", "\t", "\r", "BACKTICK", "[", "I", "M", "G", ":", "p", "]",
              "_", "C", "O", "D", "E", "B", "L", "K",
              "0", "1", "2", "3", "4", "5", "6", "7", "8", "9",
              ".", "!", "?", "CJK_PERIOD", "CJK_EXCLAMATION", "CJK_QUESTION",
              "d", "s", "o", "q",
              "h", "x", "m", "#", "(", ")", "/",
              "CJK_ONE", "CJK_TEN", "CJK_ENUM_COMMA", "CJK_DI", "CJK_ZHANG",
              "CJK_JIE", "CJK_BU", "CJK_FEN", "CJK_LPAREN", "CJK_RPAREN",
              "CJK_WEN", "CJK_DANG", "CJK_KAI", "CJK_SHI", "CJK_NEI", "CJK_RONG",
              "CJK_TU", "CJK_PIAN", "c", "f", "t", "X", "P", "F",
              "i", "g", "e", "n", "j", "u", "r", "-", "H", "N", "l",
              "CJK_BIAO", "CJK_TI">>

CharCode == [c \in {Alphabet[i] : i \in 1..Len(Alphabet)} |->
                CHOOSE i \in 1..Len(Alphabet) : Alphabet[i] = c]

DigestModulus == 65536

\* the digest's weight of the character at place i
DigestWeight(i) == ((i * i) % 251) + 1

RECURSIVE DigestSum(_, _, _)
DigestSum(key, lo, hi) ==
    IF lo > hi THEN 0
    ELSE IF lo = hi THEN CharCode[key[lo]] * DigestWeight(lo)
    ELSE DigestSum(key, lo, (lo + hi) \div 2) + DigestSum(key, ((lo + hi) \div 2) + 1, hi)

\* hashlib.md5(key.encode()).hexdigest()[:12]: a fixed digest of the characters
\* of the key and their places, here a weighted sum into 0 .. DigestModulus - 1
Md5Hex12(key) == (Len(key) + DigestSum(key, 1, Len(key))) % DigestModulus

IdPrefixLen == 100

\* faulty variant: the key holds the whole text
ChunkKey_WholeText(src, sec, t) == src \o <<":">> \o sec \o <<":">> \o t

\* f"{source_file}:{section}:{text[:100]}"
ChunkKey(src, sec, t) == src \o <<":">> \o sec \o <<":">> \o Take(t, IdPrefixLen)

_create_chunk(t, src, sec, imgs, page) ==
    [chunk_id    |-> Md5Hex12(ChunkKey(src, sec, t)),
     text        |-> t,
     source_file |-> src,
     section     |-> sec,
     page_number |-> page,
     images      |-> imgs,
     metadata    |-> [has_images  |-> Len(imgs) > 0,
                      image_count |-> Len(imgs),
                      text_length |-> Len(t)]]

----------------------------------------------------------------------------
(* Character-window splitting: _split_by_characters *)

\* the sentence terminators, in the order the code tries them
SentenceSeparators == <<"CJK_PERIOD", "CJK_EXCLAMATION", "CJK_QUESTION", ".", "!", "?">>

\* last_sep > max_chunk_size * 0.7
Beyond70Percent(last_sep, cfg) == 10 * last_sep > 7 * cfg.max_chunk_size

\* the for loop over the separators: the first separator, in list order, whose
\* last occurrence in the window lies beyond 70% of max_chunk_size moves the cut
RECURSIVE SentenceCut(_, _, _, _, _)
SentenceCut(t, start, end, cfg, k) ==
    IF k > Len(SentenceSeparators) THEN end
    ELSE LET last_sep == RFind(Slice(t, start, end), SentenceSeparators[k])
         IN  IF Beyond70Percent(last_sep, cfg) THEN start + last_sep + 1
             ELSE SentenceCut(t, start, end, cfg, k + 1)

WindowEnd(t, start, cfg) ==
    LET end == Min(start + cfg.max_chunk_size, Len(t))
    IN  IF end < Len(t) THEN SentenceCut(t, start, end, cfg, 1) ELSE end

\* faulty variant: the next window starts where this one ends
NextStart_NoOverlap(t, start, end, cfg) == end

\* the start of the next window
NextStart(t, start, end, cfg) ==
    IF cfg.chunk_overlap > 0 /\ end < Len(t)
    THEN Max(start + 1, end - cfg.chunk_overlap)
    ELSE end

RECURSIVE WindowLoop(_, _, _, _, _, _, _, _)
WindowLoop(t, src, sec, imgs, page, cfg, start, out) ==
    IF ~(start < Len(t)) THEN out
    ELSE LET end        == WindowEnd(t, start, cfg)
             chunk_text == Strip(Slice(t, start, end))
             out2       == IF chunk_text # <<>>
                           THEN Append(out, _create_chunk(chunk_text, src, sec,
                                           IF out = <<>> THEN imgs ELSE <<>>, page))
                           ELSE out
         IN  WindowLoop(t, src, sec, imgs, page, cfg,
                        NextStart(t, start, end, cfg), out2)

_split_by_characters(t, src, sec, imgs, page, cfg) ==
    WindowLoop(t, src, sec, imgs, page, cfg, 0, <<>>)

----------------------------------------------------------------------------
(* Image distributor: _distribute_images_to_chunks *)

\* faulty variant: the images are replaced, the metadata is left as it was
WithImages_StaleMetadata(chunk, imgs) == [chunk EXCEPT !.images = imgs]

WithImages(chunk, imgs) ==
    [chunk EXCEPT !.images = imgs,
                  !.metadata.image_count = Len(imgs),
                  !.metadata.has_images = Len(imgs) > 0]

\* faulty variant: the slice size is the bare quotient
ImagesPerChunk_Floor(m, n) == m \div n

\* max(1, len(images) // len(chunks))
ImagesPerChunk(m, n) == Max(1, m \div n)

\* faulty variant: the last chunk gets a slice like the others, the rest is dropped
EvenSlice_NoRemainder(imgs, i, n) ==
    Slice(imgs, i * Max(1, Len(imgs) \div n), (i + 1) * Max(1, Len(imgs) \div n))

\* faulty variant: the last chunk gets the whole list, not the rest of it
EvenSlice_LastGetsAll(imgs, i, n) ==
    IF i = n - 1 THEN imgs
    ELSE Slice(imgs, i * Max(1, Len(imgs) \div n), (i + 1) * Max(1, Len(imgs) \div n))

\* images[start_idx:end_idx] of chunk i (0-based) among n chunks
EvenSlice(imgs, i, n) ==
    LET images_per_chunk == ImagesPerChunk(Len(imgs), n)
        start_idx        == i * images_per_chunk
        end_idx          == IF i = n - 1 THEN Len(imgs)
                            ELSE start_idx + images_per_chunk
    IN  Slice(imgs, start_idx, end_idx)

DistributeEvenly(cs, imgs) ==
    [i \in 1..Len(cs) |-> WithImages(cs[i], EvenSlice(imgs, i - 1, Len(cs)))]

\* faulty variant: the chunks after the first lose their images
DistributeToFirst_ClearsOthers(cs, imgs) ==
    [i \in 1..Len(cs) |-> WithImages(cs[i], IF i = 1 THEN imgs ELSE <<>>)]

DistributeToFirst(cs, imgs) ==
    [cs EXCEPT ![1] = [cs[1] EXCEPT !.images = imgs,
                                    !.metadata.image_count = Len(imgs),
                                    !.metadata.has_images = TRUE]]

_distribute_images_to_chunks(cs, imgs, cfg) ==
    IF imgs = <<>> \/ cs = <<>> THEN cs
    ELSE IF cfg.distribute_images_evenly THEN DistributeEvenly(cs, imgs)
    ELSE DistributeToFirst(cs, imgs)


----------------------------------------------------------------------------
(* Inline image tokens *)

ImageTokenOpen == <<"[", "I", "M", "G", ":">>

\* f"[IMG:{img_path}]"
ImageToken(path) == ImageTokenOpen \o path \o <<"]">>

\* the paths of the [IMG:path] tokens of t, in order of occurrence
RECURSIVE TokenPathsFrom(_, _)
TokenPathsFrom(t, from) ==
    LET open == Find(t, ImageTokenOpen, from)
        close == IF open = -1 THEN -1 ELSE Find(t, <<"]">>, open + Len(ImageTokenOpen))
    IN  IF close = -1 THEN <<>>
        ELSE IF close = open + Len(ImageTokenOpen) THEN TokenPathsFrom(t, close + 1)
        ELSE <<Slice(t, open + Len(ImageTokenOpen), close)>> \o TokenPathsFrom(t, close + 1)

TokenPaths(t) == TokenPathsFrom(t, 0)

Range(f) == {f[i] : i \in DOMAIN f}

----------------------------------------------------------------------------
(* Paragraph-aware splitting: the for loop of _split_text_with_overlap *)

\* protected_text.split("\n"), each paragraph stripped, the blank ones dropped
ParagraphsOf(protected_text) ==
    LET raw == Split(protected_text, "\n")
    IN  SelectSeq([i \in 1..Len(raw) |-> Strip(raw[i])], LAMBDA p : p # <<>>)

\* para.startswith("__CODE_BLOCK_") and para.endswith("__")
IsCodePlaceholder(para) ==
    StartsWith(para, PlaceholderPrefix) /\ EndsWith(para, PlaceholderSuffix)

\* actual_para_len: the length of the code block a placeholder paragraph names,
\* len(para) when it names none or is no placeholder
ActualParaLen(para, blocks) ==
    IF IsCodePlaceholder(para)
    THEN LET idx == ParseInt(Replace(Replace(para, PlaceholderPrefix, <<>>),
                                     PlaceholderSuffix, <<>>))
         IN  IF idx # -1 /\ idx < Len(blocks) THEN Len(blocks[idx + 1]) ELSE Len(para)
    ELSE Len(para)

\* faulty variant: the code blocks are not restored
BufferChunk_Unrestored(buffer, blocks, src, sec, imgs, page, emitted) ==
    _create_chunk(Join(buffer, <<"\n">>),
                  src, sec, IF emitted = <<>> THEN imgs ELSE <<>>, page)

\* restore_code_blocks("\n".join(current_chunk_text)) made a chunk
BufferChunk(buffer, blocks, src, sec, imgs, page, emitted) ==
    _create_chunk(restore_code_blocks(Join(buffer, <<"\n">>), blocks),
                  src, sec, IF emitted = <<>> THEN imgs ELSE <<>>, page)

\* the first branch: a paragraph that alone exceeds max_chunk_size and is no
\* code placeholder
MustForceSplit(para, blocks, cfg) ==
    ActualParaLen(para, blocks) > cfg.max_chunk_size /\ ~IsCodePlaceholder(para)

\* the second branch: appending the paragraph would exceed max_chunk_size
WouldOverflow(para, blocks, cfg, length) ==
    length + ActualParaLen(para, blocks) > cfg.max_chunk_size

\* the overlap condition of the second branch
SeedsOverlap(para, buffer, cfg) ==
    cfg.chunk_overlap > 0 /\ buffer # <<>> /\ ~IsCodePlaceholder(para)


\* the chunk list after the buffer, when it holds something, is saved
SaveBuffer(buffer, blocks, src, sec, imgs, page, out) ==
    IF buffer # <<>>
    THEN Append(out, BufferChunk(buffer, blocks, src, sec, imgs, page, out))
    ELSE out

\* the for loop over the paragraphs and the save of the last buffer, as the
\* groupers call them: the chunk list they return
RECURSIVE ParagraphLoop(_, _, _, _, _, _, _, _, _, _)
ParagraphLoop(paras, blocks, src, sec, imgs, page, cfg, buffer, length, out) ==
    IF paras = <<>> THEN SaveBuffer(buffer, blocks, src, sec, imgs, page, out)
    ELSE LET para  == Head(paras)
             saved == SaveBuffer(buffer, blocks, src, sec, imgs, page, out)
         IN  IF MustForceSplit(para, blocks, cfg)
             THEN ParagraphLoop(Tail(paras), blocks, src, sec, imgs, page, cfg,
                      <<>>, 0,
                      saved \o _split_by_characters(restore_code_blocks(para, blocks),
                                                    src, sec, <<>>, page, cfg))
             ELSE IF WouldOverflow(para, blocks, cfg, length)
             THEN IF SeedsOverlap(para, buffer, cfg)
                  THEN ParagraphLoop(Tail(paras), blocks, src, sec, imgs, page, cfg,
                           <<Last(buffer), para>>,
                           Len(Last(buffer)) + ActualParaLen(para, blocks), saved)
                  ELSE ParagraphLoop(Tail(paras), blocks, src, sec, imgs, page, cfg,
                           <<para>>, ActualParaLen(para, blocks), saved)
             ELSE ParagraphLoop(Tail(paras), blocks, src, sec, imgs, page, cfg,
                      Append(buffer, para), length + ActualParaLen(para, blocks), out)

_split_text_with_overlap(t, src, sec, imgs, page, cfg) ==
    LET protected == ProtectCodeBlocks(t)
    IN  IF Len(t) <= cfg.max_chunk_size
        THEN <<_create_chunk(t, src, sec, imgs, page)>>
        ELSE IF cfg.split_by_paragraph
        THEN ParagraphLoop(ParagraphsOf(protected.protected_text),
                           protected.code_blocks, src, sec, imgs, page, cfg,
                           <<>>, 0, <<>>)
        ELSE _split_by_characters(t, src, sec, imgs, page, cfg)

----------------------------------------------------------------------------
(* Inputs *)

\* a fenced code block holding a line break
CodePiece == Fence \o <<"\n">> \o Fence

ImagePath == <<"p">>

ImagePiece == ImageToken(ImagePath)

\* a sentence: its terminator lies beyond 70% of a window of 7 characters
SentencePiece == <<"a", "a", "a", "a", "a", ".">>

Pieces == {<<"a">>, <<"\n">>, <<" ">>, SentencePiece, CodePiece, ImagePiece}

\* an inline image token stands on a line of its own: the section groupers
\* append it to the section's texts as an element, joined by line breaks
TokensOnOwnLines(t) ==
    LET lines == Split(t, "\n")
    IN  \A i \in 1..Len(lines) :
            Find(lines[i], <<"[">>, 0) # -1 => lines[i] = ImagePiece

\* the section texts: some pieces one after the other, stripped as the
\* section groupers leave them
SectionTexts ==
    {t \in {Concat(ps) : ps \in UNION {[1..k -> Pieces] : k \in 1..MaxPieces}} :
        Strip(t) = t /\ TokensOnOwnLines(t)}

ChunkSizes == {2, 7}

Configs ==
    [max_chunk_size           : ChunkSizes,
     chunk_overlap            : 0..MaxOverlap,
     split_by_paragraph       : BOOLEAN,
     force_max_size           : {TRUE},
     distribute_images_evenly : BOOLEAN]

\* the i-th image file left over after the positional pass
Orphan(i) == <<"o">> \o Digits(i)

OrphanLists == {[i \in 1..m |-> Orphan(i)] : m \in 0..MaxOrphans}

\* the other operations of the parser are not running
WindowIdle ==
    /\ window_start = 0
    /\ win_iterations = 0
    /\ windows = <<>>

DocumentIdle ==
    /\ kind = "none"
    /\ elements = <<>>
    /\ extracted_images = <<>>
    /\ content = <<>>
    /\ disk = {}

StoreIdle ==
    /\ sink = {}
    /\ jobs = <<>>

BatchIdle ==
    /\ directory = {}
    /\ extensions = <<>>
    /\ ext_index = 0
    /\ listing = <<>>
    /\ all_chunks = <<>>
    /\ visited = <<>>

IndexIdle ==
    /\ collection = <<>>
    /\ replace_existing = FALSE
    /\ pending = {}

ElsewhereIdle ==
    /\ WindowIdle
    /\ DocumentIdle
    /\ StoreIdle
    /\ BatchIdle
    /\ IndexIdle

SplitterAtEntry ==
    /\ pc = "split"
    /\ code_blocks = <<>>
    /\ paragraphs = <<>>
    /\ current_chunk_text = <<>>
    /\ current_length = 0
    /\ chunks = <<>>
    /\ remaining_images = <<>>
    /\ seeds = <<>>
    /\ current_seed = <<>>

Init ==
    /\ config \in Configs
    /\ source_file = <<"d">>
    /\ section = <<"s">>
    /\ page_number = 0
    /\ text \in SectionTexts
    /\ images = TokenPaths(text)
    /\ SplitterAtEntry
    /\ run = 1
    /\ first_chunks = <<>>
    /\ ElsewhereIdle

----------------------------------------------------------------------------
(* _split_text_with_overlap *)

inputs == <<config, source_file, section, page_number, text, images>>

\* the state of the other operations of the parser
window == <<window_start, win_iterations, windows>>

document == <<kind, elements, extracted_images, content, disk>>

store == <<sink, jobs>>

batch == <<directory, extensions, ext_index, listing, all_chunks, visited>>

index == <<collection, replace_existing, pending>>

elsewhere == <<window, document, store, batch, index>>

history == <<run, first_chunks>>

\* len(text) <= max_chunk_size: the text is one chunk
ShortCircuit ==
    /\ pc = "split"
    /\ Len(text) <= config.max_chunk_size
    /\ code_blocks' = ProtectCodeBlocks(text).code_blocks
    /\ chunks' = <<_create_chunk(text, source_file, section, images, page_number)>>
    /\ seeds' = <<<<>>>>
    /\ pc' = "split_done"
    /\ UNCHANGED <<inputs, history, elsewhere, paragraphs, current_chunk_text, current_length,
                   remaining_images, current_seed>>

\* split_by_paragraph: the protected text is cut into paragraphs
StartParagraphs ==
    /\ pc = "split"
    /\ Len(text) > config.max_chunk_size
    /\ config.split_by_paragraph
    /\ code_blocks' = ProtectCodeBlocks(text).code_blocks
    /\ paragraphs' = ParagraphsOf(ProtectCodeBlocks(text).protected_text)
    /\ pc' = "para"
    /\ UNCHANGED <<inputs, history, elsewhere, current_chunk_text, current_length, chunks,
                   remaining_images, seeds, current_seed>>

\* not split_by_paragraph: the text itself goes through the character windows
CharacterMode ==
    /\ pc = "split"
    /\ Len(text) > config.max_chunk_size
    /\ ~config.split_by_paragraph
    /\ code_blocks' = ProtectCodeBlocks(text).code_blocks
    /\ chunks' = _split_by_characters(text, source_file, section, images,
                                      page_number, config)
    /\ seeds' = [i \in 1..Len(chunks') |-> <<>>]
    /\ pc' = "split_done"
    /\ UNCHANGED <<inputs, history, elsewhere, paragraphs, current_chunk_text, current_length,
                   remaining_images, current_seed>>

\* the chunk list after the buffer, when it holds something, is saved
Flushed ==
    IF current_chunk_text # <<>>
    THEN Append(chunks, BufferChunk(current_chunk_text, code_blocks, source_file,
                                    section, images, page_number, chunks))
    ELSE chunks

FlushedSeeds ==
    IF current_chunk_text # <<>> THEN Append(seeds, current_seed) ELSE seeds

\* loop body, first branch: the buffer is saved, the paragraph is restored and
\* cut by character windows, with no images
ForceSplitParagraph ==
    /\ pc = "para"
    /\ paragraphs # <<>>
    /\ LET para == Head(paragraphs)
       IN  /\ MustForceSplit(para, code_blocks, config)
           /\ LET sub_chunks == _split_by_characters(
                                    restore_code_blocks(para, code_blocks),
                                    source_file, section, <<>>, page_number, config)
              IN  /\ chunks' = Flushed \o sub_chunks
                  /\ seeds' = FlushedSeeds \o [i \in 1..Len(sub_chunks) |-> <<>>]
    /\ current_chunk_text' = <<>>
    /\ current_length' = 0
    /\ current_seed' = <<>>
    /\ paragraphs' = Tail(paragraphs)
    /\ UNCHANGED <<inputs, history, elsewhere, pc, code_blocks, remaining_images>>

\* loop body, second branch: the buffer is saved and a new one starts with the
\* paragraph, after the last unit of the old one when the overlap condition holds
OverflowParagraph ==
    /\ pc = "para"
    /\ paragraphs # <<>>
    /\ LET para == Head(paragraphs)
       IN  /\ ~MustForceSplit(para, code_blocks, config)
           /\ WouldOverflow(para, code_blocks, config, current_length)
           /\ chunks' = Flushed
           /\ seeds' = FlushedSeeds
           /\ IF SeedsOverlap(para, current_chunk_text, config)
              THEN /\ current_chunk_text' = <<Last(current_chunk_text), para>>
                   /\ current_length' = Len(Last(current_chunk_text))
                                        + ActualParaLen(para, code_blocks)
                   /\ current_seed' = Last(current_chunk_text)
              ELSE /\ current_chunk_text' = <<para>>
                   /\ current_length' = ActualParaLen(para, code_blocks)
                   /\ current_seed' = <<>>
    /\ paragraphs' = Tail(paragraphs)
    /\ UNCHANGED <<inputs, history, elsewhere, pc, code_blocks, remaining_images>>

\* loop body, third branch: the paragraph joins the buffer
AppendParagraph ==
    /\ pc = "para"
    /\ paragraphs # <<>>
    /\ LET para == Head(paragraphs)
       IN  /\ ~MustForceSplit(para, code_blocks, config)
           /\ ~WouldOverflow(para, code_blocks, config, current_length)
           /\ current_chunk_text' = Append(current_chunk_text, para)
           /\ current_length' = current_length + ActualParaLen(para, code_blocks)
    /\ paragraphs' = Tail(paragraphs)
    /\ UNCHANGED <<inputs, history, elsewhere, pc, code_blocks, chunks, remaining_images,
                   seeds, current_seed>>

\* after the loop: the last buffer is saved
FlushLast ==
    /\ pc = "para"
    /\ paragraphs = <<>>
    /\ chunks' = Flushed
    /\ seeds' = FlushedSeeds
    /\ pc' = "split_done"
    /\ UNCHANGED <<inputs, history, elsewhere, code_blocks, paragraphs, current_chunk_text,
                   current_length, remaining_images, current_seed>>

----------------------------------------------------------------------------
(* The whole-document pass of _elements_to_chunks_optimized *)

\* remaining_images and chunks: the orphans are distributed; the list is returned
DistributeRemaining ==
    /\ pc = "split_done"
    /\ \E rem \in OrphanLists :
        /\ remaining_images' = rem
        /\ chunks' = IF rem # <<>> /\ chunks # <<>>
                     THEN _distribute_images_to_chunks(chunks, rem, config)
                     ELSE chunks
    /\ pc' = "done"
    /\ UNCHANGED <<inputs, history, elsewhere, code_blocks, paragraphs, current_chunk_text,
                   current_length, seeds, current_seed>>

SplitTextWithOverlap ==
    \/ ShortCircuit
    \/ StartParagraphs
    \/ CharacterMode
    \/ ForceSplitParagraph
    \/ OverflowParagraph
    \/ AppendParagraph
    \/ FlushLast

Next ==
    \/ SplitTextWithOverlap
    \/ DistributeRemaining

Spec == Init /\ [][Next]_vars


----------------------------------------------------------------------------
(* Properties of the chunk segmenter *)

Returned == pc \in {"split_done", "done"}

\* t is exactly one fenced code block
IsOneFencedBlock(t) == ProtectCodeBlocks(t).code_blocks = <<t>>

\* C1: with force_max_size set, every chunk has at most max_chunk_size
\* characters, unless its text is exactly one fenced code block.
C1_SizeBound ==
    config.force_max_size =>
        \A i \in 1..Len(chunks) :
            \/ Len(chunks[i].text) <= config.max_chunk_size
            \/ IsOneFencedBlock(chunks[i].text)

\* every backtick of t lies in a complete fenced region of t
NoPartialFence(t) ==
    \A i \in 1..Len(ProtectCodeBlocks(t).protected_text) :
        ProtectCodeBlocks(t).protected_text[i] # "BACKTICK"

\* C2: no chunk boundary falls inside a fenced region: every fenced region of
\* the section text appears whole inside a returned chunk, and no chunk holds
\* only a part of a fenced region.
C2_CodeAtomicity ==
    Returned =>
        /\ \A k \in 1..Len(code_blocks) :
               \E i \in 1..Len(chunks) : Find(chunks[i].text, code_blocks[k], 0) # -1
        /\ \A i \in 1..Len(chunks) : NoPartialFence(chunks[i].text)

\* C3: in paragraph mode with chunk_overlap > 0, no buffer is seeded with a
\* protected code-block unit, so no chunk repeats the fenced region that ended
\* the chunk before it.
C3_CodeBlockNeverSeedsOverlap ==
    (config.split_by_paragraph /\ config.chunk_overlap > 0) =>
        /\ ~IsCodePlaceholder(current_seed)
        /\ \A i \in 1..Len(seeds) : ~IsCodePlaceholder(seeds[i])

\* C4: every [IMG:p] token in the text of a chunk of the returned list has p
\* in the images of that chunk.
C4_ImageConsistency ==
    pc = "done" =>
        \A i \in 1..Len(chunks) :
            Range(TokenPaths(chunks[i].text)) \subseteq Range(chunks[i].images)

\* the text of chunk i after its leading overlap unit, when its buffer was
\* seeded with one, is removed together with the line break that follows it
WithoutOverlapUnit(i) ==
    IF seeds[i] = <<>> THEN chunks[i].text
    ELSE Slice(chunks[i].text,
               Len(restore_code_blocks(seeds[i], code_blocks)) + 1,
               Len(chunks[i].text))

\* the chunks joined in emission order, overlap units removed
Reconstruction ==
    Join([i \in 1..Len(chunks) |-> WithoutOverlapUnit(i)], <<"\n">>)

\* the paragraph units of the section text: its lines outside fenced code
\* stripped, the blank ones dropped
UnitsOfText == ParagraphsOf(ProtectCodeBlocks(text).protected_text)

\* the section text with its paragraph units normalised
NormalizedText == restore_code_blocks(Join(UnitsOfText, <<"\n">>), code_blocks)

NoUnitForceSplit ==
    \A k \in 1..Len(UnitsOfText) : ~MustForceSplit(UnitsOfText[k], code_blocks, config)

C7_OverlapLaw ==
    [][(/\ pc = "para"
        /\ paragraphs # <<>>
        /\ ~MustForceSplit(Head(paragraphs), code_blocks, config)
        /\ WouldOverflow(Head(paragraphs), code_blocks, config, current_length)
        /\ config.chunk_overlap > 0
        /\ current_chunk_text # <<>>
        /\ ~IsCodePlaceholder(Last(current_chunk_text)))
       => (/\ Len(current_chunk_text') = 2
           /\ current_chunk_text'[1] = Last(current_chunk_text))]_vars


----------------------------------------------------------------------------
(* The image distributor called on a chunk list and an orphan list *)

\* a chunk as the segmenter leaves it: with the image of its inline token, or
\* with no image
PlacedChunk(has_image) ==
    IF has_image
    THEN _create_chunk(ImagePiece, <<"d">>, <<"s">>, <<ImagePath>>, 0)
    ELSE _create_chunk(<<"a">>, <<"d">>, <<"s">>, <<>>, 0)

ChunkLists ==
    {[i \in DOMAIN placed |-> PlacedChunk(placed[i])] :
        placed \in UNION {[1..n -> BOOLEAN] : n \in 0..MaxDistChunks}}

InitDist ==
    /\ config \in [max_chunk_size           : {7},
                   chunk_overlap            : {0},
                   split_by_paragraph       : {TRUE},
                   force_max_size           : {TRUE},
                   distribute_images_evenly : BOOLEAN]
    /\ source_file = <<"d">>
    /\ section = <<"s">>
    /\ page_number = 0
    /\ text = <<>>
    /\ images = <<>>
    /\ pc = "distribute"
    /\ code_blocks = <<>>
    /\ paragraphs = <<>>
    /\ current_chunk_text = <<>>
    /\ current_length = 0
    /\ chunks \in ChunkLists
    /\ remaining_images \in {[i \in 1..m |-> Orphan(i)] : m \in 0..MaxDistImages}
    /\ seeds = <<>>
    /\ current_seed = <<>>
    /\ run = 1
    /\ first_chunks = <<>>
    /\ ElsewhereIdle

\* _distribute_images_to_chunks(chunks, images)
DistributeImages ==
    /\ pc = "distribute"
    /\ chunks' = _distribute_images_to_chunks(chunks, remaining_images, config)
    /\ pc' = "done"
    /\ UNCHANGED <<inputs, history, elsewhere, code_blocks, paragraphs, current_chunk_text,
                   current_length, remaining_images, seeds, current_seed>>

NextDist == DistributeImages

SpecDist == InitDist /\ [][NextDist]_vars

ImageCounts == [i \in 1..Len(chunks) |-> Len(chunks[i].images)]

MetadataFollowsImages(chunk) ==
    /\ chunk.metadata.image_count = Len(chunk.images)
    /\ chunk.metadata.has_images = (Len(chunk.images) > 0)

\* the even policy met a non-empty orphan list and a non-empty chunk list
EvenlyDistributed ==
    /\ pc = "done"
    /\ config.distribute_images_evenly
    /\ remaining_images # <<>>
    /\ chunks # <<>>

\* C8 as stated: under the even policy every chunk but the last holds the
\* next floor(m/n) orphans and the last chunk holds all the rest.
C8_EvenSlicesOfFloor ==
    EvenlyDistributed =>
        LET m == Len(remaining_images)
            n == Len(chunks)
            q == m \div n
        IN  \A i \in 1..n :
                chunks[i].images =
                    IF i < n THEN SubSeq(remaining_images, (i - 1) * q + 1, i * q)
                    ELSE SubSeq(remaining_images, (n - 1) * q + 1, m)

\* C8 amended: with m >= n orphans every chunk but the last holds the next
\* floor(m/n) orphans and the last chunk those and the m mod n left; with
\* m < n the first m chunks hold one orphan each and the others none.
C8_EvenSlicesOfAtLeastOne ==
    EvenlyDistributed =>
        LET m == Len(remaining_images)
            n == Len(chunks)
            q == m \div n
        IN  \A i \in 1..n :
                /\ MetadataFollowsImages(chunks[i])
                /\ chunks[i].images =
                       IF m >= n
                       THEN IF i < n
                            THEN SubSeq(remaining_images, (i - 1) * q + 1, i * q)
                            ELSE SubSeq(remaining_images, (n - 1) * q + 1, m)
                       ELSE IF i <= m THEN <<remaining_images[i]>> ELSE <<>>

\* fewer orphans than chunks were distributed evenly
C8_Witness ==
    /\ EvenlyDistributed
    /\ Len(remaining_images) < Len(chunks)
    /\ Len(remaining_images) >= 2

FiveOrphansThreeChunks ==
    /\ EvenlyDistributed
    /\ Len(remaining_images) = 5
    /\ Len(chunks) = 3

\* C9 as stated: 5 orphans over 3 chunks leave 2, 2 and 1 images.
C9_FiveOverThreeIs221 == FiveOrphansThreeChunks => ImageCounts = <<2, 2, 1>>

\* C9 amended: 5 orphans over 3 chunks leave 1, 1 and 3 images.
C9_FiveOverThreeIs113 == FiveOrphansThreeChunks => ImageCounts = <<1, 1, 3>>

\* 5 orphans were distributed evenly over 3 chunks, one of which held an image
C9_Witness ==
    /\ FiveOrphansThreeChunks
    /\ chunks[1].text = ImagePiece

\* C10: the concentrate policy gives the first chunk the whole orphan list and
\* changes nothing else: the other chunks, and the other fields of the first.
C10_ConcentrateOnFirst ==
    [][(/\ pc = "distribute"
        /\ pc' = "done"
        /\ ~config.distribute_images_evenly
        /\ remaining_images # <<>>
        /\ chunks # <<>>)
       => (/\ Len(chunks') = Len(chunks)
           /\ chunks'[1].images = remaining_images
           /\ MetadataFollowsImages(chunks'[1])
           /\ chunks'[1].text = chunks[1].text
           /\ chunks'[1].chunk_id = chunks[1].chunk_id
           /\ chunks'[1].metadata.text_length = chunks[1].metadata.text_length
           /\ \A i \in 2..Len(chunks) : chunks'[i] = chunks[i])]_vars

\* the concentrate policy ran on three chunks, the second of which holds an image
C10_Witness ==
    /\ pc = "done"
    /\ ~config.distribute_images_evenly
    /\ remaining_images # <<>>
    /\ Len(chunks) = 3
    /\ chunks[1].images = remaining_images
    /\ chunks[2].images = <<ImagePath>>


----------------------------------------------------------------------------
(* Two parses of one section: chunk identity *)

\* a run of 100 characters: as long as the prefix of the text the id is made of
LongRun == [i \in 1..IdPrefixLen |-> "a"]

IdPieces == {LongRun, <<"a">>, <<"b">>, <<"\n">>}

IdTexts ==
    {t \in {Concat(ps) : ps \in UNION {[1..k -> IdPieces] : k \in 1..MaxIdPieces}} :
        Strip(t) = t}

IdChunkSizes == {120}

InitId ==
    /\ config \in [max_chunk_size           : IdChunkSizes,
                   chunk_overlap            : 0..MaxOverlap,
                   split_by_paragraph       : BOOLEAN,
                   force_max_size           : {TRUE},
                   distribute_images_evenly : BOOLEAN]
    /\ source_file = <<"d">>
    /\ section = <<"s">>
    /\ page_number = 0
    /\ text \in IdTexts
    /\ images = <<ImagePath>>
    /\ SplitterAtEntry
    /\ run = 1
    /\ first_chunks = <<>>
    /\ ElsewhereIdle

\* the section is parsed once more: the same text, source file and section,
\* under the same configuration; the page and the image list are the same or
\* others
Reparse ==
    /\ pc = "done"
    /\ run = 1
    /\ run' = 2
    /\ first_chunks' = chunks
    /\ \E same \in BOOLEAN :
        /\ images' = IF same THEN images ELSE <<>>
        /\ page_number' = IF same THEN page_number ELSE page_number + 1
    /\ pc' = "split"
    /\ code_blocks' = <<>>
    /\ paragraphs' = <<>>
    /\ current_chunk_text' = <<>>
    /\ current_length' = 0
    /\ chunks' = <<>>
    /\ remaining_images' = <<>>
    /\ seeds' = <<>>
    /\ current_seed' = <<>>
    /\ UNCHANGED <<config, source_file, section, text, elsewhere>>

NextId ==
    \/ SplitTextWithOverlap
    \/ DistributeRemaining
    \/ Reparse

SpecId == InitId /\ [][NextId]_vars

ChunkIds(cs) == [i \in 1..Len(cs) |-> cs[i].chunk_id]

\* what the id is made of
IdentityOf(chunk) ==
    <<chunk.source_file, chunk.section, Take(chunk.text, IdPrefixLen)>>

AllChunks == Range(chunks) \cup Range(first_chunks)

\* C5: two chunks with the same source file, section and first 100 characters
\* of text have the same chunk_id, whatever their images and page; and the
\* second parse of a section returns the chunk_id sequence of the first.
C5_IdentityDeterminism ==
    /\ \A c1, c2 \in AllChunks :
           IdentityOf(c1) = IdentityOf(c2) => c1.chunk_id = c2.chunk_id
    /\ (run = 2 /\ pc = "done") => ChunkIds(chunks) = ChunkIds(first_chunks)

\* the second parse has returned; two of its chunks differ in text after the
\* first 100 characters, and a chunk differs from its first-parse counterpart
\* in images and page
C5_Witness ==
    /\ run = 2
    /\ pc = "done"
    /\ \E i, j \in 1..Len(chunks) :
           /\ chunks[i].text # chunks[j].text
           /\ IdentityOf(chunks[i]) = IdentityOf(chunks[j])
    /\ \E i \in 1..Len(chunks) :
           /\ chunks[i].images # first_chunks[i].images
           /\ chunks[i].page_number # first_chunks[i].page_number

----------------------------------------------------------------------------
(* Images and metadata of the chunks of one section *)

\* C11: when a section with images yields chunks, the first chunk carries the
\* whole image list of the section and every later chunk carries none.
C11_SectionImagesOnFirstChunk ==
    (pc = "split_done" /\ images # <<>> /\ chunks # <<>>) =>
        /\ chunks[1].images = images
        /\ \A i \in 2..Len(chunks) : chunks[i].images = <<>>

\* what _create_chunk writes into metadata, and the distributor keeps up
MetadataConsistent(chunk) ==
    /\ chunk.metadata.image_count = Len(chunk.images)
    /\ chunk.metadata.has_images = (Len(chunk.images) > 0)
    /\ chunk.metadata.text_length = Len(chunk.text)

\* C20: every chunk of a returned list, before and after the orphans are
\* distributed under either policy, has image_count = len(images),
\* has_images = (len(images) > 0) and text_length = len(text).
C20_MetadataConsistency ==
    Returned => \A i \in 1..Len(chunks) : MetadataConsistent(chunks[i])

\* orphans were distributed evenly over several chunks: one that held the
\* image of its section now holds none, one that held none now holds an orphan
C20_Witness ==
    /\ pc = "done"
    /\ config.distribute_images_evenly
    /\ remaining_images # <<>>
    /\ Len(chunks) >= 3
    /\ images # <<>>
    /\ \E i \in 2..Len(chunks) : chunks[i].images # <<>>
    /\ \E i \in 1..Len(chunks) : chunks[i].images = <<>>

----------------------------------------------------------------------------
(* The while loop of _split_by_characters, one iteration a step *)

MaxWinLen == 4
MaxIterations == 6

WinChars == {"a", " ", "."}

\* a text of 250 characters none of which is blank or ends a sentence
LongWindowText == [i \in 1..250 |-> "a"]

\* a text of 250 characters whose second window is blank
BlankWindowText == [i \in 1..250 |-> IF i \in 81..180 THEN " " ELSE "a"]

\* the texts the callers pass: stripped, and longer than max_chunk_size
WinTexts ==
    {t \in UNION {[1..k -> WinChars] : k \in 1..MaxWinLen} : Strip(t) = t}

WinConfig(size, overlap) ==
    [max_chunk_size           |-> size,
     chunk_overlap            |-> overlap,
     split_by_paragraph       |-> FALSE,
     force_max_size           |-> TRUE,
     distribute_images_evenly |-> TRUE]

\* ChunkingConfig validates nothing: a size of 0 or less is accepted
WinConfigs ==
    {WinConfig(size, overlap) : size \in -1..(MaxWinLen - 1), overlap \in 0..MaxWinLen}

segmenter == <<code_blocks, paragraphs, current_chunk_text, current_length,
               remaining_images, seeds, current_seed>>

InitWin ==
    /\ \/ /\ text \in WinTexts
          /\ config \in WinConfigs
       \/ /\ text \in {LongWindowText, BlankWindowText}
          /\ config \in {WinConfig(100, 20), WinConfig(100, 0)}
    /\ Len(text) > config.max_chunk_size
    /\ source_file = <<"d">>
    /\ section = <<"s">>
    /\ page_number = 0
    /\ images = <<ImagePath>>
    /\ pc = "window"
    /\ code_blocks = <<>>
    /\ paragraphs = <<>>
    /\ current_chunk_text = <<>>
    /\ current_length = 0
    /\ chunks = <<>>
    /\ remaining_images = <<>>
    /\ seeds = <<>>
    /\ current_seed = <<>>
    /\ run = 1
    /\ first_chunks = <<>>
    /\ ElsewhereIdle

\* one run of the body of the while loop
WindowStep ==
    /\ pc = "window"
    /\ window_start < Len(text)
    /\ win_iterations < MaxIterations
    /\ LET end        == WindowEnd(text, window_start, config)
           chunk_text == Strip(Slice(text, window_start, end))
       IN  /\ chunks' = IF chunk_text # <<>>
                        THEN Append(chunks,
                                 _create_chunk(chunk_text, source_file, section,
                                     IF chunks = <<>> THEN images ELSE <<>>,
                                     page_number))
                        ELSE chunks
           /\ windows' = Append(windows, [start |-> window_start, end |-> end])
           /\ window_start' = NextStart(text, window_start, end, config)
    /\ win_iterations' = win_iterations + 1
    /\ UNCHANGED <<inputs, history, segmenter, document, store, batch, index, pc>>

\* start < text_length fails: return chunks
WindowReturn ==
    /\ pc = "window"
    /\ ~(window_start < Len(text))
    /\ pc' = "window_done"
    /\ UNCHANGED <<inputs, history, segmenter, window, document, store, batch, index, chunks>>

NextWin ==
    \/ WindowStep
    \/ WindowReturn

SpecWin == InitWin /\ [][NextWin]_vars

\* C12: every run of the loop body moves start forward by at least one
\* character, so the body runs at most len(text) times and the loop ends.
C12_WindowLoopTerminates ==
    /\ [][win_iterations' = win_iterations + 1 => window_start' >= window_start + 1]_vars
    /\ [](win_iterations <= Len(text))

NoTerminators ==
    \A i \in 1..Len(text) : \A k \in 1..Len(SentenceSeparators) :
        text[i] # SentenceSeparators[k]

\* each window ends at min(start + max_chunk_size, len(text))
WindowEndsAtMin ==
    \A i \in 1..Len(windows) :
        windows[i].end = Min(windows[i].start + config.max_chunk_size, Len(text))

\* the 250 characters under max_chunk_size 100 and chunk_overlap 20
ExampleRun ==
    /\ pc = "window_done"
    /\ Len(text) = 250
    /\ config = WinConfig(100, 20)

ExampleWindows ==
    windows = <<[start |-> 0, end |-> 100], [start |-> 80, end |-> 180],
                [start |-> 160, end |-> 250]>>

----------------------------------------------------------------------------
(* Title recognition: title_patterns and _is_custom_title *)

\* the numerals one to ten; the model writes the first and the last of them
CjkNumerals == {"CJK_ONE", "CJK_TEN"}

DigitSet == {DigitChars[i] : i \in 1..Len(DigitChars)}

\* the number of characters of t the run of class characters after the first i ends at
RunEnd(t, i, class) ==
    LET stops == {j \in i..(Len(t) - 1) : t[j + 1] \notin class}
    IN  IF stops = {} THEN Len(t) ELSE CHOOSE j \in stops : \A k \in stops : j <= k

\* \s*.+ matches after the first i characters of t: some whitespace, then a
\* character that is no line break
MatchesRest(t, i) ==
    \E k \in i..(Len(t) - 1) :
        /\ \A j \in (i + 1)..k : t[j] \in Whitespace
        /\ t[k + 1] # "\n"

\* a run of class characters from the first i on, one closing character, \s*.+
MatchesEnumeration(t, i, class, closing) ==
    LET e == RunEnd(t, i, class)
    IN  /\ e > i
        /\ e < Len(t)
        /\ t[e + 1] \in closing
        /\ MatchesRest(t, e + 1)

\* the four default patterns, each under a name, in the order of the list
DefaultTitlePatterns ==
    <<"cjk_enumeration", "arabic_enumeration", "chapter", "parenthesized">>

\* a pattern a caller may supply: ^x
CallerPattern == "^x"

\* ChunkingConfig.__post_init__: a config made without title_patterns (a record
\* without the field) gets the default list, another keeps the list it was given
TitlePatterns(cfg) ==
    IF "title_patterns" \in DOMAIN cfg THEN cfg.title_patterns ELSE DefaultTitlePatterns

\* re.match(pattern, u)
MatchesPattern(pattern, u) ==
    CASE pattern = "cjk_enumeration" ->
             MatchesEnumeration(u, 0, CjkNumerals, {"CJK_ENUM_COMMA", "."})
      [] pattern = "arabic_enumeration" ->
             MatchesEnumeration(u, 0, DigitSet, {"CJK_ENUM_COMMA", "."})
      [] pattern = "chapter" ->
             /\ u # <<>>
             /\ u[1] = "CJK_DI"
             /\ MatchesEnumeration(u, 1, CjkNumerals \cup DigitSet,
                                   {"CJK_ZHANG", "CJK_JIE", "CJK_BU", "CJK_FEN"})
      [] pattern = "parenthesized" ->
             /\ u # <<>>
             /\ u[1] \in {"CJK_LPAREN", "("}
             /\ MatchesEnumeration(u, 1, DigitSet, {"CJK_RPAREN", ")"})
      [] pattern = CallerPattern ->
             u # <<>> /\ u[1] = "x"

\* re.match(pattern, text.strip()) for some pattern of self.config.title_patterns
_is_custom_title(t, cfg) ==
    \E k \in 1..Len(TitlePatterns(cfg)) : MatchesPattern(TitlePatterns(cfg)[k], Strip(t))

----------------------------------------------------------------------------
(* Section groupers of the docx and the pdf adapter *)

\* the section every grouper starts in
StartSection == <<"CJK_WEN", "CJK_DANG", "CJK_KAI", "CJK_SHI">>

\* the section made when no section was recognised
DefaultSection == <<"CJK_WEN", "CJK_DANG", "CJK_NEI", "CJK_RONG">>

NewSection(title, page) ==
    [section |-> title, texts |-> <<>>, images |-> <<>>, page |-> page]

ImageTokens(imgs) == [i \in 1..Len(imgs) |-> ImageToken(imgs[i])]

\* the second pass of both groupers, for one section: a section text longer
\* than max_chunk_size is split, another that is not blank is one chunk
SectionChunks(info, src, cfg) ==
    LET section_text == Join(info.texts, <<"\n">>)
    IN  IF Len(section_text) > cfg.max_chunk_size
        THEN _split_text_with_overlap(section_text, src, info.section, info.images,
                                      info.page, cfg)
        ELSE IF Strip(section_text) # <<>>
        THEN <<_create_chunk(section_text, src, info.section, info.images, info.page)>>
        ELSE <<>>

AllSectionChunks(sections, src, cfg) ==
    Concat([i \in 1..Len(sections) |-> SectionChunks(sections[i], src, cfg)])

\* is_title of the docx grouper
DocxIsTitle(elem, cfg) ==
    \/ elem.type = "heading"
    \/ elem.text # <<>> /\ cfg.split_by_title /\ _is_custom_title(elem.text, cfg)

\* the for loop of _docx_elements_to_chunks and the save of the last section
RECURSIVE DocxGroup(_, _, _, _)
DocxGroup(elems, cfg, section_data, sections) ==
    LET kept == IF section_data.texts # <<>> \/ section_data.images # <<>>
                THEN Append(sections, section_data) ELSE sections
    IN  IF elems = <<>> THEN kept
        ELSE LET elem == Head(elems)
             IN  IF DocxIsTitle(elem, cfg) /\ elem.text # <<>>
                 THEN DocxGroup(Tail(elems), cfg, NewSection(elem.text, 0), kept)
                 ELSE DocxGroup(Tail(elems), cfg,
                          [section_data EXCEPT
                              !.texts = @ \o (IF elem.text # <<>> THEN <<elem.text>>
                                              ELSE <<>>)
                                          \o ImageTokens(elem.images),
                              !.images = @ \o elem.images],
                          sections)

DocxSections(elems, cfg) ==
    LET sections == DocxGroup(elems, cfg, NewSection(StartSection, 0), <<>>)
    IN  IF sections # <<>> THEN sections
        ELSE <<[section |-> DefaultSection,
                texts   |-> SelectSeq([i \in 1..Len(elems) |-> elems[i].text],
                                      LAMBDA t : t # <<>>),
                images  |-> Concat([i \in 1..Len(elems) |-> elems[i].images]),
                page    |-> 0]>>

_docx_elements_to_chunks(elems, src, cfg) ==
    AllSectionChunks(DocxSections(elems, cfg), src, cfg)

\* is_title of the pdf grouper
PdfIsTitle(element, cfg) ==
    \/ element.category \in {"Title", "Header"}
    \/ Strip(element.text) # <<>> /\ cfg.split_by_title
       /\ _is_custom_title(Strip(element.text), cfg)

\* the first pass of _elements_to_chunks_optimized: the sections and the
\* number of extracted images placed
RECURSIVE PdfGroup(_, _, _, _, _, _)
PdfGroup(elems, cfg, extracted, image_index, section_data, sections) ==
    LET kept == IF section_data.texts # <<>>
                THEN Append(sections, section_data) ELSE sections
    IN  IF elems = <<>> THEN [sections |-> kept, image_index |-> image_index]
        ELSE LET element == Head(elems)
                 t       == Strip(element.text)
             IN  IF element.category = "Image"
                 THEN IF image_index < Len(extracted)
                      THEN PdfGroup(Tail(elems), cfg, extracted, image_index + 1,
                               [section_data EXCEPT
                                   !.texts = Append(@, ImageToken(extracted[image_index + 1])),
                                   !.images = Append(@, extracted[image_index + 1])],
                               sections)
                      ELSE PdfGroup(Tail(elems), cfg, extracted, image_index,
                                    section_data, sections)
                 ELSE IF PdfIsTitle(element, cfg) /\ t # <<>>
                 THEN PdfGroup(Tail(elems), cfg, extracted, image_index,
                               NewSection(t, element.page_number), kept)
                 ELSE IF t # <<>>
                 THEN PdfGroup(Tail(elems), cfg, extracted, image_index,
                               [section_data EXCEPT !.texts = Append(@, t)], sections)
                 ELSE PdfGroup(Tail(elems), cfg, extracted, image_index,
                               section_data, sections)

PdfSections(elems, cfg, extracted) ==
    LET grouped == PdfGroup(elems, cfg, extracted, 0, NewSection(StartSection, 0), <<>>)
        texted  == SelectSeq(elems, LAMBDA e : e.text # <<>> /\ e.category # "Image")
    IN  IF grouped.sections # <<>> THEN grouped.sections
        ELSE <<[section |-> DefaultSection,
                texts   |-> [i \in 1..Len(texted) |-> Strip(texted[i].text)],
                images  |-> extracted,
                page    |-> 0]>>

_elements_to_chunks_optimized(elems, src, extracted, cfg) ==
    LET grouped   == PdfGroup(elems, cfg, extracted, 0, NewSection(StartSection, 0), <<>>)
        remaining == Slice(extracted, grouped.image_index, Len(extracted))
        cs        == AllSectionChunks(PdfSections(elems, cfg, extracted), src, cfg)
    IN  IF remaining # <<>> /\ cs # <<>>
        THEN _distribute_images_to_chunks(cs, remaining, cfg)
        ELSE cs

----------------------------------------------------------------------------
(* The markdown adapter: _parse_markdown and _split_markdown_optimized *)

\* the reference ![alt](path) that would start at index i of t: "![", the
\* characters up to the next "]", "(", one or more characters up to the next ")"
RefAt(t, i) ==
    LET close  == Find(t, <<"]">>, i + 2)
        pclose == IF close = -1 THEN -1 ELSE Find(t, <<")">>, close + 2)
    IN  [ok   |-> /\ close # -1
                  /\ close + 1 < Len(t)
                  /\ t[close + 2] = "("
                  /\ pclose > close + 2,
         alt  |-> Slice(t, i + 2, close),
         path |-> Slice(t, close + 2, pclose),
         end  |-> pclose + 1]

\* the index of the first reference of t at or after from, -1 if none
NextRef(t, from) ==
    LET at == {i \in Occurrences(t, <<"!", "[">>, from) : RefAt(t, i).ok}
    IN  IF at = {} THEN -1 ELSE CHOOSE i \in at : \A j \in at : i <= j

\* re.findall of the reference pattern: the references of t, left to right
RECURSIVE RefsFrom(_, _)
RefsFrom(t, from) ==
    LET i == NextRef(t, from)
    IN  IF i = -1 THEN <<>>
        ELSE <<RefAt(t, i)>> \o RefsFrom(t, RefAt(t, i).end)

RefPaths(t) == LET refs == RefsFrom(t, 0) IN [i \in 1..Len(refs) |-> refs[i].path]

\* what a reference is replaced by: the word for picture, a colon, a blank and alt
PictureToken(alt) == <<"[", "CJK_TU", "CJK_PIAN", ":", " ">> \o alt \o <<"]">>

\* re.sub of the reference pattern by the picture token
RECURSIVE ReplaceRefsFrom(_, _)
ReplaceRefsFrom(t, from) ==
    LET i == NextRef(t, from)
    IN  IF i = -1 THEN Slice(t, from, Len(t))
        ELSE Slice(t, from, i) \o PictureToken(RefAt(t, i).alt)
             \o ReplaceRefsFrom(t, RefAt(t, i).end)

\* file_path.parent: the path up to its last "/", empty for the current directory
DocDir(src) ==
    LET slash == RFind(src, "/") IN IF slash = -1 THEN <<>> ELSE Slice(src, 0, slash)

\* str(doc_dir / img_path)
ResolvePath(doc_dir, img_path) ==
    IF img_path[1] = "/" \/ doc_dir = <<>> THEN img_path
    ELSE doc_dir \o <<"/">> \o img_path

\* faulty variant: every reference is mapped, its file on disk or not
ImageMap_Unchecked(t, src, existing) ==
    [img_path \in Range(RefPaths(t)) |-> ResolvePath(DocDir(src), img_path)]

\* image_map: the paths referenced in the content whose file exists, resolved
ImageMap(t, src, existing) ==
    [img_path \in {q \in Range(RefPaths(t)) : ResolvePath(DocDir(src), q) \in existing}
        |-> ResolvePath(DocDir(src), img_path)]

\* the indices at which a line of t starts
LineStarts(t) == {0} \cup {i \in 1..Len(t) : t[i] = "\n"}

\* the end of the match of ^#{1,3}\s+.+$ at line start i of t, -1 if none: one
\* to three "#", the longest whitespace that leaves a character of its line
\* to .+, and that line to its end
HeadingEnd(t, i) ==
    LET p  == RunEnd(t, i, {"#"})
        w  == RunEnd(t, p, Whitespace)
        ks == {k \in (p + 1)..w : k < Len(t) /\ t[k + 1] # "\n"}
        k  == CHOOSE x \in ks : \A y \in ks : x >= y
        nl == Find(t, <<"\n">>, k)
    IN  IF p - i \notin 1..3 \/ ks = {} THEN -1
        ELSE IF nl = -1 THEN Len(t) ELSE nl

NextHeading(t, from) ==
    LET at == {i \in LineStarts(t) : i >= from /\ HeadingEnd(t, i) # -1}
    IN  IF at = {} THEN -1 ELSE CHOOSE i \in at : \A j \in at : i <= j

\* re.split(section_pattern, protected_content, flags=re.MULTILINE): the text
\* before each heading and the heading, then the text after the last one
RECURSIVE SplitHeadings(_, _)
SplitHeadings(t, from) ==
    LET i == NextHeading(t, from)
    IN  IF i = -1 THEN <<Slice(t, from, Len(t))>>
        ELSE <<Slice(t, from, i), Slice(t, i, HeadingEnd(t, i))>>
             \o SplitHeadings(t, HeadingEnd(t, i))

\* re.match(r"^#{1,3}\s+", part)
IsHeadingPart(part) ==
    LET n == RunEnd(part, 0, {"#"})
    IN  n \in 1..3 /\ n < Len(part) /\ part[n + 1] \in Whitespace

\* re.sub(r"^#+\s*", "", part)
HeadingTitle(part) ==
    Slice(part, RunEnd(part, RunEnd(part, 0, {"#"}), Whitespace), Len(part))

\* the images of the references of a part are added to current_images, those
\* not mapped and those already there left out
RECURSIVE AddImages(_, _, _)
AddImages(current_images, img_refs, image_map) ==
    IF img_refs = <<>> THEN current_images
    ELSE AddImages(
             IF Head(img_refs) \in DOMAIN image_map
                /\ image_map[Head(img_refs)] \notin Range(current_images)
             THEN Append(current_images, image_map[Head(img_refs)])
             ELSE current_images,
             Tail(img_refs), image_map)

\* the collected texts of a section, when there are any, are split into chunks
MdSaveSection(cs, current_text, current_section, current_images, blocks, src, cfg) ==
    IF current_text = <<>> THEN cs
    ELSE cs \o _split_text_with_overlap(
                   restore_code_blocks(Join(current_text, <<"\n">>), blocks),
                   src, current_section, current_images, 0, cfg)

\* the for loop over the parts and the save of the last section
RECURSIVE MdLoop(_, _, _, _, _, _, _, _, _)
MdLoop(parts, blocks, image_map, src, cfg, current_section, current_text, current_images, cs) ==
    IF parts = <<>>
    THEN MdSaveSection(cs, current_text, current_section, current_images,
                       blocks, src, cfg)
    ELSE LET part == Strip(Head(parts))
         IN  IF part = <<>>
             THEN MdLoop(Tail(parts), blocks, image_map, src, cfg,
                         current_section, current_text, current_images, cs)
             ELSE IF IsHeadingPart(part)
             THEN MdLoop(Tail(parts), blocks, image_map, src, cfg,
                         HeadingTitle(part),
                         <<>>,
                         IF current_text # <<>> THEN <<>> ELSE current_images,
                         MdSaveSection(cs, current_text, current_section,
                                       current_images, blocks, src, cfg))
             ELSE LET restored_part == restore_code_blocks(part, blocks)
                      clean_text    == ReplaceRefsFrom(restored_part, 0)
                  IN  MdLoop(Tail(parts), blocks, image_map, src, cfg,
                             current_section,
                             IF Strip(clean_text) # <<>>
                             THEN Append(current_text, clean_text)
                             ELSE current_text,
                             AddImages(current_images, RefPaths(restored_part),
                                       image_map),
                             cs)

_split_markdown_optimized(t, src, image_map, cfg) ==
    LET protected == ProtectCodeBlocks(t)
    IN  MdLoop(SplitHeadings(protected.protected_text, 0), protected.code_blocks,
               image_map, src, cfg, StartSection, <<>>, <<>>, <<>>)

_parse_markdown(t, src, existing, cfg) ==
    _split_markdown_optimized(t, src, ImageMap(t, src, existing), cfg)

----------------------------------------------------------------------------
(* parse: the dispatch on the suffix of the path *)

\* Path(file_path).name: the path after its last "/"
PathName(path) == Slice(path, RFind(path, "/") + 1, Len(path))

\* Path(file_path).suffix: the name from its last "." on, when that is neither
\* the first nor the last character of the name
Suffix(path) ==
    LET name == PathName(path)
        dot  == RFind(name, ".")
    IN  IF 0 < dot /\ dot < Len(name) - 1 THEN Slice(name, dot, Len(name)) ELSE <<>>

\* the upper-case letters of the model and their lower-case forms
LowerOf == [c \in {"D", "O", "C", "X", "M", "P", "F"} |->
               CASE c = "D" -> "d" [] c = "O" -> "o" [] c = "C" -> "c"
                 [] c = "X" -> "x" [] c = "M" -> "m" [] c = "P" -> "p"
                 [] c = "F" -> "f"]

\* str.lower()
Lower(t) == [i \in 1..Len(t) |-> IF t[i] \in DOMAIN LowerOf THEN LowerOf[t[i]] ELSE t[i]]

\* faulty variant: the suffix is compared as it is written
Adapter_CaseSensitive(path) ==
    LET suffix == Suffix(path)
    IN  IF suffix = <<".", "d", "o", "c", "x">> THEN "docx"
        ELSE IF suffix = <<".", "m", "d">> THEN "md"
        ELSE IF suffix = <<".", "p", "d", "f">> THEN "pdf"
        ELSE "unsupported"

\* the adapter parse calls for a path, "unsupported" when it raises ValueError
Adapter(path) ==
    LET suffix == Lower(Suffix(path))
    IN  IF suffix = <<".", "d", "o", "c", "x">> THEN "docx"
        ELSE IF suffix = <<".", "m", "d">> THEN "md"
        ELSE IF suffix = <<".", "p", "d", "f">> THEN "pdf"
        ELSE "unsupported"

----------------------------------------------------------------------------
(* One document parsed by its adapter *)

MaxElements == 3
MaxMdPieces == 3

DocxFile == <<"d", ".", "d", "o", "c", "x">>
PdfFile  == <<"d", ".", "p", "d", "f">>
MdFile   == <<"m", "/", "d", ".", "m", "d">>

DocConfigs ==
    [max_chunk_size           : {3, 9},
     chunk_overlap            : {1},
     split_by_paragraph       : BOOLEAN,
     split_by_title           : BOOLEAN,
     force_max_size           : {TRUE},
     distribute_images_evenly : BOOLEAN]

\* a text that matches a default title pattern
EnumeratedText == <<"1", ".", "a">>

\* what _parse_docx makes of a paragraph or a table cell: its stripped text and
\* the image files written for its drawings, one of the two at least
DocxElements ==
    {[type |-> "heading",   text |-> <<"h">>,                images |-> <<>>],
     [type |-> "paragraph", text |-> <<"a">>,                images |-> <<>>],
     [type |-> "paragraph", text |-> EnumeratedText,         images |-> <<>>],
     [type |-> "paragraph", text |-> <<"a", "a", "a", "a">>, images |-> <<>>],
     [type |-> "paragraph", text |-> <<>>,                   images |-> <<ImagePath>>],
     [type |-> "paragraph", text |-> <<"a">>,                images |-> <<ImagePath>>]}

\* every image file is written once
DocxStreams ==
    {es \in UNION {[1..n -> DocxElements] : n \in 0..MaxElements} :
        Cardinality({i \in 1..Len(es) : es[i].images # <<>>}) <= 1}

\* the typed blocks partition_pdf returns
PdfElements ==
    {[category |-> "Title",         text |-> <<"h">>,        page_number |-> 1],
     [category |-> "Header",        text |-> <<"x">>,        page_number |-> 0],
     [category |-> "NarrativeText", text |-> <<"a">>,        page_number |-> 0],
     [category |-> "NarrativeText", text |-> EnumeratedText, page_number |-> 1],
     [category |-> "NarrativeText", text |-> <<" ">>,        page_number |-> 0],
     [category |-> "Image",         text |-> <<>>,           page_number |-> 0]}

PdfStreams == UNION {[1..n -> PdfElements] : n \in 0..MaxElements}

HeadingPiece == <<"#", " ", "h">>

\* a reference to the file m/p and one to the file m/q
RefToP == <<"!", "[", "x", "]", "(", "p", ")">>
RefToQ == <<"!", "[", "]", "(", "q", ")">>

ResolvedP == ResolvePath(DocDir(MdFile), <<"p">>)
ResolvedQ == ResolvePath(DocDir(MdFile), <<"q">>)

MdPieces == {<<"a">>, <<"\n">>, HeadingPiece, RefToP, RefToQ}

MdContents == {Concat(ps) : ps \in UNION {[1..k -> MdPieces] : k \in 0..MaxMdPieces}}

\* the file m/q is never on disk, the file m/p is or is not
Disks == {{}, {ResolvedP}}

InitDoc ==
    /\ config \in DocConfigs
    /\ source_file \in {DocxFile, PdfFile, MdFile}
    /\ section = <<>>
    /\ page_number = 0
    /\ text = <<>>
    /\ images = <<>>
    /\ pc = "parse"
    /\ code_blocks = <<>>
    /\ paragraphs = <<>>
    /\ current_chunk_text = <<>>
    /\ current_length = 0
    /\ chunks = <<>>
    /\ remaining_images = <<>>
    /\ seeds = <<>>
    /\ current_seed = <<>>
    /\ run = 1
    /\ first_chunks = <<>>
    /\ WindowIdle
    /\ StoreIdle
    /\ BatchIdle
    /\ IndexIdle
    /\ kind = "none"
    /\ \/ /\ source_file = DocxFile
          /\ elements \in DocxStreams
          /\ extracted_images = <<>>
          /\ content = <<>>
          /\ disk = {}
          /\ ~config.distribute_images_evenly
       \/ /\ source_file = PdfFile
          /\ elements \in PdfStreams
          /\ extracted_images \in {<<>>, <<Orphan(1)>>}
          /\ content = <<>>
          /\ disk = {}
          /\ config.split_by_paragraph
       \/ /\ source_file = MdFile
          /\ elements = <<>>
          /\ extracted_images = <<>>
          /\ content \in MdContents
          /\ disk \in Disks
          /\ ~config.distribute_images_evenly

\* parse of a .docx path: _parse_docx
ParseDocx ==
    /\ pc = "parse"
    /\ Adapter(source_file) = "docx"
    /\ kind' = "docx"
    /\ chunks' = _docx_elements_to_chunks(elements, source_file, config)
    /\ pc' = "done"
    /\ UNCHANGED <<inputs, history, segmenter, window, store, batch, index,
                   elements, extracted_images, content, disk>>

\* parse of a .pdf path: _parse_pdf
ParsePdf ==
    /\ pc = "parse"
    /\ Adapter(source_file) = "pdf"
    /\ kind' = "pdf"
    /\ chunks' = _elements_to_chunks_optimized(elements, source_file,
                                               extracted_images, config)
    /\ pc' = "done"
    /\ UNCHANGED <<inputs, history, segmenter, window, store, batch, index,
                   elements, extracted_images, content, disk>>

\* parse of a .md path: _parse_markdown
ParseMarkdown ==
    /\ pc = "parse"
    /\ Adapter(source_file) = "md"
    /\ kind' = "md"
    /\ chunks' = _parse_markdown(content, source_file, disk, config)
    /\ pc' = "done"
    /\ UNCHANGED <<inputs, history, segmenter, window, store, batch, index,
                   elements, extracted_images, content, disk>>

NextDoc ==
    \/ ParseDocx
    \/ ParsePdf
    \/ ParseMarkdown

SpecDoc == InitDoc /\ [][NextDoc]_vars

\* C14: with split_by_title off no section boundary is honoured: all chunks of
\* a parsed document carry the same section.
C14_OneSectionWithoutTitles ==
    (pc = "done" /\ ~config.split_by_title) =>
        \A i, j \in 1..Len(chunks) : chunks[i].section = chunks[j].section


----------------------------------------------------------------------------
(* Markdown image references *)

\* the chunks of a parsed markdown document whose text holds the placeholder
\* token of the image file m/p
ChunksWithTokenOfP ==
    {i \in 1..Len(chunks) : Occurrences(chunks[i].text, ImageToken(ResolvedP), 0) # {}}

\* C18: a reference to a file on disk is replaced by the placeholder token
\* [IMG:<path>] of its resolved path, and the chunk holding the token has the
\* path in its images.
C18_ReferenceBecomesToken ==
    (pc = "done" /\ kind = "md" /\ ResolvedP \in disk
        /\ <<"p">> \in Range(RefPaths(content))) =>
        /\ ChunksWithTokenOfP # {}
        /\ \A i \in ChunksWithTokenOfP : ResolvedP \in Range(chunks[i].images)

\* C19: a reference to a file that is not on disk is left unresolved: parsing
\* ends, every image of every chunk is a file on disk, so the path of the missing
\* file is in no chunk, and image_count and has_images count the attached images
\* only.
C19_MissingImageUnresolved ==
    (pc = "done" /\ kind = "md") =>
        \A i \in 1..Len(chunks) :
            /\ Range(chunks[i].images) \subseteq disk
            /\ ResolvedQ \notin Range(chunks[i].images)
            /\ MetadataConsistent(chunks[i])

\* a parsed document with a reference to the missing file m/q next to one to the
\* existing file m/p, the latter attached to a chunk
C19_Witness ==
    /\ pc = "done"
    /\ kind = "md"
    /\ <<"q">> \in Range(RefPaths(content))
    /\ \E i \in 1..Len(chunks) :
           /\ chunks[i].images = <<ResolvedP>>
           /\ chunks[i].metadata.image_count = 1

----------------------------------------------------------------------------
(* Parses that share the image directory: parse, _parse_docx, _parse_pdf *)

MaxParagraphs == 2

Jobs == {1, 2}

\* self.image_output_dir
ImageOutputDir == <<"s">>

PngType  == <<"i", "m", "a", "g", "e", "/", "p", "n", "g">>
JpegType == <<"i", "m", "a", "g", "e", "/", "j", "p", "e", "g">>

\* image_part.content_type.split("/")[-1], "jpeg" written as "jpg"
ImageExt(content_type) ==
    LET image_ext == Slice(content_type, RFind(content_type, "/") + 1, Len(content_type))
    IN  IF image_ext = <<"j", "p", "e", "g">> THEN <<"j", "p", "g">> ELSE image_ext

\* file_path.stem: the name without its suffix
Stem(path) ==
    LET name == PathName(path) IN Slice(name, 0, Len(name) - Len(Suffix(path)))

\* str(self.image_output_dir / f"{doc_name}_image{image_index}.{image_ext}")
DocxImagePath(doc_name, image_index, image_ext) ==
    ImageOutputDir \o <<"/">> \o doc_name \o <<"_", "i", "m", "a", "g", "e">>
        \o Digits(image_index) \o <<".">> \o image_ext

HeadingStyle == <<"H", "e", "a", "d", "i", "n", "g", " ", "1">>
NormalStyle  == <<"N", "o", "r", "m", "a", "l">>

\* style_name.startswith("Heading") or style_name.startswith the CJK word for title
IsHeadingStyle(style_name) ==
    \/ StartsWith(style_name, <<"H", "e", "a", "d", "i", "n", "g">>)
    \/ StartsWith(style_name, <<"CJK_BIAO", "CJK_TI">>)

\* para_images: the files the drawings of a paragraph are written to, the
\* document's image_index counted on from the value it has before the paragraph
ParagraphImages(para, doc_name, image_index) ==
    [k \in 1..Len(para.drawings) |->
        DocxImagePath(doc_name, image_index + k, ImageExt(para.drawings[k]))]

\* elements after a paragraph: it is appended when it has text or images
WithParagraph(elems, para, para_images) ==
    IF Strip(para.text) # <<>> \/ para_images # <<>>
    THEN Append(elems, [type   |-> IF IsHeadingStyle(para.style_name)
                                   THEN "heading" ELSE "paragraph",
                        text   |-> Strip(para.text),
                        images |-> para_images])
    ELSE elems

\* the for loop over doc.paragraphs, run from its start to its end
RECURSIVE DocxElementsOf(_, _, _, _)
DocxElementsOf(paras, doc_name, image_index, elems) ==
    IF paras = <<>> THEN elems
    ELSE DocxElementsOf(Tail(paras), doc_name,
                        image_index + Len(Head(paras).drawings),
                        WithParagraph(elems, Head(paras),
                                      ParagraphImages(Head(paras), doc_name, image_index)))

\* the files of a set that image_output_dir.glob(f"{stem}*{ext}") yields
Glob(files, stem, ext) ==
    {f \in files :
        /\ DocDir(f) = ImageOutputDir
        /\ StartsWith(PathName(f), stem)
        /\ EndsWith(PathName(f), ext)
        /\ Len(PathName(f)) >= Len(stem) + Len(ext)}

\* the orders in which a directory listing may yield the files of a set
Orderings(files) ==
    {order \in [1..Cardinality(files) -> files] : Range(order) = files}

\* the values extracted_images may take: the .png files, then the .jpg files
ExtractedImages(files, stem) ==
    {pngs \o jpgs : pngs \in Orderings(Glob(files, stem, <<".", "p", "n", "g">>)),
                    jpgs \in Orderings(Glob(files, stem, <<".", "j", "p", "g">>))}

\* the paragraphs python-docx reads from a .docx file
DocxParagraphs ==
    {[style_name |-> NormalStyle,  text |-> <<"a">>, drawings |-> <<>>],
     [style_name |-> NormalStyle,  text |-> <<"a">>, drawings |-> <<PngType>>],
     [style_name |-> HeadingStyle, text |-> <<" ">>, drawings |-> <<JpegType>>]}

\* a file partition_pdf writes into the directory it is given, under a name of
\* the library's choosing
FigureFile ==
    ImageOutputDir \o <<"/", "f", "i", "g", "u", "r", "e", "-", "1", "-", "1", ".", "j", "p", "g">>

NoDocument ==
    [paragraphs |-> <<>>, blocks |-> <<>>, figures |-> {}, content |-> <<>>]

DocxDocuments ==
    {[NoDocument EXCEPT !.paragraphs = ps] :
        ps \in UNION {[1..n -> DocxParagraphs] : n \in 1..MaxParagraphs}}

PdfDocuments ==
    {[NoDocument EXCEPT !.blocks = bs, !.figures = fs] :
        bs \in {<<[category |-> "NarrativeText", text |-> <<"a">>, page_number |-> 1]>>,
                <<[category |-> "NarrativeText", text |-> <<"a">>, page_number |-> 1],
                  [category |-> "Image",         text |-> <<>>,    page_number |-> 1]>>},
        fs \in {{}, {FigureFile}}}

MdDocuments == {[NoDocument EXCEPT !.content = <<"a">>]}

D2Docx    == <<"d", "2", ".", "d", "o", "c", "x">>
EDocx     == <<"e", ".", "d", "o", "c", "x">>
UpperDocx == <<"D", ".", "D", "O", "C", "X">>
DPdf      == <<"d", ".", "p", "d", "f">>
UpperPdf  == <<"h", ".", "P", "D", "F">>
MixedMd   == <<"x", ".", "M", "d">>
ETxt      == <<"e", ".", "t", "x", "t">>
NoSuffix  == <<"d", "o", "c", "x">>
DotDocx   == <<"m", "/", ".", "d", "o", "c", "x">>

Paths == {D2Docx, EDocx, UpperDocx, DPdf, UpperPdf, MixedMd, ETxt, NoSuffix, DotDocx}

\* the contents a file of a path may have
DocumentsAt(path) ==
    IF path \in {D2Docx, EDocx, UpperDocx} THEN DocxDocuments
    ELSE IF path \in {DPdf, UpperPdf} THEN PdfDocuments
    ELSE MdDocuments

\* a call of parse that has not started
NewJob(path, doc) ==
    [path        |-> path,
     document    |-> doc,
     pc          |-> "call",
     opened      |-> FALSE,
     next        |-> 1,
     image_index |-> 0,
     elements    |-> <<>>,
     written     |-> {},
     extracted   |-> <<>>,
     chunks      |-> <<>>]

SinkConfigs ==
    [max_chunk_size           : {40},
     chunk_overlap            : {1},
     split_by_paragraph       : {TRUE},
     split_by_title           : {TRUE},
     force_max_size           : {TRUE},
     distribute_images_evenly : {TRUE}]

InitSink ==
    /\ config \in SinkConfigs
    /\ source_file = <<>>
    /\ section = <<>>
    /\ page_number = 0
    /\ text = <<>>
    /\ images = <<>>
    /\ pc = "jobs"
    /\ code_blocks = <<>>
    /\ paragraphs = <<>>
    /\ current_chunk_text = <<>>
    /\ current_length = 0
    /\ chunks = <<>>
    /\ remaining_images = <<>>
    /\ seeds = <<>>
    /\ current_seed = <<>>
    /\ run = 1
    /\ first_chunks = <<>>
    /\ WindowIdle
    /\ DocumentIdle
    /\ BatchIdle
    /\ IndexIdle
    /\ sink = {}
    /\ \E p1 \in Paths, p2 \in {D2Docx, DPdf, ETxt} :
           \E d1 \in DocumentsAt(p1), d2 \in DocumentsAt(p2) :
               jobs = <<NewJob(p1, d1), NewJob(p2, d2)>>

parser == <<inputs, history, segmenter, window, document, batch, index, pc, chunks>>

\* parse, lines 113-123: the suffix decides, before anything is opened
ParseCall ==
    \E j \in Jobs :
        /\ jobs[j].pc = "call"
        /\ jobs' = [jobs EXCEPT ![j].pc = IF Adapter(jobs[j].path) = "unsupported"
                                          THEN "raised"
                                          ELSE Adapter(jobs[j].path)]
        /\ UNCHANGED <<parser, sink>>

\* _parse_docx: Document(str(file_path))
DocxOpen ==
    \E j \in Jobs :
        /\ jobs[j].pc = "docx"
        /\ jobs' = [jobs EXCEPT ![j].pc = "paragraphs", ![j].opened = TRUE]
        /\ UNCHANGED <<parser, sink>>

\* _parse_docx: one turn of the for loop over doc.paragraphs
DocxParagraph ==
    \E j \in Jobs :
        /\ jobs[j].pc = "paragraphs"
        /\ jobs[j].next <= Len(jobs[j].document.paragraphs)
        /\ LET para        == jobs[j].document.paragraphs[jobs[j].next]
               para_images == ParagraphImages(para, Stem(jobs[j].path),
                                              jobs[j].image_index)
           IN  /\ sink' = sink \cup Range(para_images)
               /\ jobs' = [jobs EXCEPT
                      ![j].next        = @ + 1,
                      ![j].image_index = @ + Len(para.drawings),
                      ![j].written     = @ \cup Range(para_images),
                      ![j].elements    = WithParagraph(@, para, para_images)]
        /\ UNCHANGED parser

\* _parse_docx: the return, through _docx_elements_to_chunks
DocxChunks ==
    \E j \in Jobs :
        /\ jobs[j].pc = "paragraphs"
        /\ jobs[j].next > Len(jobs[j].document.paragraphs)
        /\ jobs' = [jobs EXCEPT
               ![j].pc     = "done",
               ![j].chunks = _docx_elements_to_chunks(jobs[j].elements,
                                                      jobs[j].path, config)]
        /\ UNCHANGED <<parser, sink>>

\* _parse_pdf: partition_pdf reads the file and writes its figures
PdfPartition ==
    \E j \in Jobs :
        /\ jobs[j].pc = "pdf"
        /\ sink' = sink \cup jobs[j].document.figures
        /\ jobs' = [jobs EXCEPT
               ![j].pc       = "glob",
               ![j].opened   = TRUE,
               ![j].written  = jobs[j].document.figures,
               ![j].elements = jobs[j].document.blocks]
        /\ UNCHANGED parser

\* _parse_pdf: the two globs of the image directory and the return, through
\* _elements_to_chunks_optimized
PdfGlob ==
    \E j \in Jobs :
        /\ jobs[j].pc = "glob"
        /\ \E found \in ExtractedImages(sink, Stem(jobs[j].path)) :
               jobs' = [jobs EXCEPT
                   ![j].pc        = "done",
                   ![j].extracted = found,
                   ![j].chunks    = _elements_to_chunks_optimized(
                                        jobs[j].elements, jobs[j].path, found, config)]
        /\ UNCHANGED <<parser, sink>>

\* _parse_markdown, for a file that refers to no image
MdParse ==
    \E j \in Jobs :
        /\ jobs[j].pc = "md"
        /\ jobs' = [jobs EXCEPT
               ![j].pc     = "done",
               ![j].opened = TRUE,
               ![j].chunks = _parse_markdown(jobs[j].document.content,
                                             jobs[j].path, {}, config)]
        /\ UNCHANGED <<parser, sink>>

NextSink ==
    \/ ParseCall
    \/ DocxOpen
    \/ DocxParagraph
    \/ DocxChunks
    \/ PdfPartition
    \/ PdfGlob
    \/ MdParse

SpecSink == InitSink /\ [][NextSink]_vars

\* the chunk lists a parse of the job's file returns when it runs alone into an
\* empty image directory
AloneResults(job) ==
    CASE Adapter(job.path) = "docx" ->
             {_docx_elements_to_chunks(
                  DocxElementsOf(job.document.paragraphs, Stem(job.path), 0, <<>>),
                  job.path, config)}
      [] Adapter(job.path) = "pdf" ->
             {_elements_to_chunks_optimized(job.document.blocks, job.path, found, config) :
                  found \in ExtractedImages(job.document.figures, Stem(job.path))}
      [] Adapter(job.path) = "md" ->
             {_parse_markdown(job.document.content, job.path, {}, config)}
      [] OTHER -> {}

\* C15: two documents whose base names differ, parsed into the same image
\* directory in any interleaving: each parse returns what it returns alone.
C15_ParsesIndependent ==
    \A j \in DOMAIN jobs : \A k \in DOMAIN jobs :
        (/\ jobs[j].pc = "done"
         /\ PathName(jobs[j].path) # PathName(jobs[k].path)
         /\ Stem(jobs[j].path) # Stem(jobs[k].path)) =>
            jobs[j].chunks \in AloneResults(jobs[j])

\* the paths of the model that end in .docx, .md or .pdf in whatever case
AcceptedPaths == {D2Docx, EDocx, UpperDocx, DPdf, UpperPdf, MixedMd}

\* C16: parse of a path without one of the three extensions raises before
\* anything is opened, written or returned; a path with one of them, in
\* whatever case, never raises.
C16_UnsupportedFormat ==
    \A j \in DOMAIN jobs :
        /\ jobs[j].path \notin AcceptedPaths =>
               /\ jobs[j].pc \in {"call", "raised"}
               /\ ~jobs[j].opened
               /\ jobs[j].written = {}
               /\ jobs[j].chunks = <<>>
        /\ jobs[j].path \in AcceptedPaths => jobs[j].pc # "raised"

\* a parse of an upper-case .DOCX path has written an image and returned chunks,
\* and the other parse, of a .txt path, has raised: the image directory holds
\* the files of the first parse only
C16_Witness ==
    /\ jobs # <<>>
    /\ jobs[1].path = UpperDocx
    /\ jobs[1].pc = "done"
    /\ jobs[1].chunks # <<>>
    /\ jobs[1].written # {}
    /\ jobs[2].path = ETxt
    /\ jobs[2].pc = "raised"
    /\ sink = jobs[1].written


----------------------------------------------------------------------------
(* parse_directory: every file of a directory, one extension after the other *)

XMd     == <<"b", "/", "x", ".", "m", "d">>
HMd     == <<"b", "/", "h", ".", "m", "d">>
DDocx   == <<"b", "/", "d", ".", "d", "o", "c", "x">>
TTxt    == <<"b", "/", "t", ".", "t", "x", "t">>

BatchPaths == {XMd, HMd, DDocx, TTxt}

\* a directory: of every path of the model no file, a file that its adapter can
\* read, or one at which the adapter raises (not a package, not UTF-8)
Directories ==
    {{[path |-> p, readable |-> present[p] = "readable"] :
          p \in {q \in BatchPaths : present[q] # "absent"}} :
        present \in [BatchPaths -> {"absent", "readable", "unreadable"}]}

\* the default of the argument extensions
DefaultExtensions == <<<<".", "d", "o", "c", "x">>, <<".", "m", "d">>>>

ExtensionLists ==
    {DefaultExtensions,
     <<<<".", "m", "d">>>>,
     <<<<".", "t", "x", "t">>, <<".", "m", "d">>>>,
     <<<<".", "m", "d">>, <<".", "d", "o", "c", "x">>, <<".", "t", "x", "t">>>>}

\* what the file of a path holds
BatchDocument(path) ==
    IF Adapter(path) = "docx"
    THEN [NoDocument EXCEPT !.paragraphs =
              <<[style_name |-> NormalStyle, text |-> <<"a">>, drawings |-> <<PngType>>]>>]
    ELSE [NoDocument EXCEPT !.content = <<"a", "\n", "#", " ", "h", "\n", "a">>]

\* the files of the directory that dir_path.glob(f"*{ext}") yields
GlobDir(files, ext) == {f \in files : EndsWith(PathName(f.path), ext)}

\* the chunk list the adapter of a file returns when it can read the file; the
\* directories of the model hold no .pdf file
Parsed(file, cfg) ==
    CASE Adapter(file.path) = "docx" ->
             _docx_elements_to_chunks(
                 DocxElementsOf(BatchDocument(file.path).paragraphs, Stem(file.path),
                                0, <<>>),
                 file.path, cfg)
      [] Adapter(file.path) = "md" ->
             _parse_markdown(BatchDocument(file.path).content, file.path, {}, cfg)
      [] OTHER -> <<>>

\* self.parse(str(file_path)) raises: the suffix is not supported, or the
\* adapter cannot read the file
ParseRaises(file) == Adapter(file.path) = "unsupported" \/ ~file.readable

\* the image files the parse of a file leaves in image_output_dir
ImagesWritten(file) ==
    IF Adapter(file.path) = "docx" /\ file.readable
    THEN UNION {Range(e.images) :
                    e \in Range(DocxElementsOf(BatchDocument(file.path).paragraphs,
                                               Stem(file.path), 0, <<>>))}
    ELSE {}

\* faulty variant: the chunks of a file are added whether its parse raised or not
Collected_Unguarded(collected, file, cfg) == collected \o Parsed(file, cfg)

\* the body of the inner for loop: all_chunks.extend(chunks) in the try block,
\* nothing but a message in the except block
Collected(collected, file, cfg) ==
    IF ParseRaises(file) THEN collected ELSE collected \o Parsed(file, cfg)

InitBatch ==
    /\ config \in SinkConfigs
    /\ source_file = <<>>
    /\ section = <<>>
    /\ page_number = 0
    /\ text = <<>>
    /\ images = <<>>
    /\ pc = "extensions"
    /\ code_blocks = <<>>
    /\ paragraphs = <<>>
    /\ current_chunk_text = <<>>
    /\ current_length = 0
    /\ chunks = <<>>
    /\ remaining_images = <<>>
    /\ seeds = <<>>
    /\ current_seed = <<>>
    /\ run = 1
    /\ first_chunks = <<>>
    /\ WindowIdle
    /\ DocumentIdle
    /\ StoreIdle
    /\ IndexIdle
    /\ directory \in Directories
    /\ extensions \in ExtensionLists
    /\ ext_index = 1
    /\ listing = <<>>
    /\ all_chunks = <<>>
    /\ visited = <<>>

caller == <<inputs, history, segmenter, window, document, index, jobs>>

\* for ext in extensions: the glob of the next extension starts
NextExtension ==
    /\ pc = "extensions"
    /\ ext_index <= Len(extensions)
    /\ listing' \in Orderings(GlobDir(directory, extensions[ext_index]))
    /\ pc' = "files"
    /\ UNCHANGED <<caller, sink, chunks, directory, extensions, ext_index,
                   all_chunks, visited>>

\* for file_path in dir_path.glob(...): parse of the next file, in try/except
VisitFile ==
    /\ pc = "files"
    /\ listing # <<>>
    /\ all_chunks' = Collected(all_chunks, Head(listing), config)
    /\ sink' = sink \cup ImagesWritten(Head(listing))
    /\ visited' = Append(visited, Head(listing))
    /\ listing' = Tail(listing)
    /\ UNCHANGED <<caller, pc, chunks, directory, extensions, ext_index>>

\* the glob is exhausted: on to the next extension
EndOfListing ==
    /\ pc = "files"
    /\ listing = <<>>
    /\ ext_index' = ext_index + 1
    /\ pc' = "extensions"
    /\ UNCHANGED <<caller, sink, chunks, directory, extensions, listing,
                   all_chunks, visited>>

\* return all_chunks
BatchReturn ==
    /\ pc = "extensions"
    /\ ext_index > Len(extensions)
    /\ chunks' = all_chunks
    /\ pc' = "returned"
    /\ UNCHANGED <<caller, sink, batch>>

NextBatch ==
    \/ NextExtension
    \/ VisitFile
    \/ EndOfListing
    \/ BatchReturn

SpecBatch == InitBatch /\ [][NextBatch]_vars

\* the visits the two loops have to make: every extension with every file
\* whose name ends in it
VisitsDue ==
    {v \in (1..Len(extensions)) \X directory :
        EndsWith(PathName(v[2].path), extensions[v[1]])}

\* C17: parse_directory returns the chunk lists of the files that parse,
\* concatenated in visiting order; a file that raises adds nothing and every
\* file of every extension is visited whatever the files before it did.
C17_BatchIsolation ==
    pc = "returned" =>
        /\ chunks = Concat([i \in 1..Len(visited) |->
                               IF visited[i].readable
                                  /\ Adapter(visited[i].path) # "unsupported"
                               THEN Parsed(visited[i], config)
                               ELSE <<>>])
        /\ Len(visited) = Cardinality(VisitsDue)
        /\ Range(visited) = {v[2] : v \in VisitsDue}

\* a batch has returned the chunks of a file it visited after two files whose
\* parse raised, one unreadable and one of an unsupported format
C17_Witness ==
    /\ pc = "returned"
    /\ Len(visited) >= 3
    /\ visited[1].path = TTxt
    /\ ~visited[2].readable
    /\ Adapter(visited[2].path) = "md"
    /\ visited[3].readable
    /\ chunks = Parsed(visited[3], config)
    /\ chunks # <<>>

----------------------------------------------------------------------------
(* Sections whose fenced code is longer than its placeholder *)

MaxLongPieces == 3

\* a fenced code block of 26 characters: its placeholder has 16
LongCodePiece == Fence \o [i \in 1..20 |-> "x"] \o Fence

\* a paragraph longer than the chunk size of LongConfigs
LongParagraphPiece == [i \in 1..21 |-> "a"]

LongPieces == {<<"a", "b">>, <<"\n">>, LongCodePiece, LongParagraphPiece}

LongTexts ==
    {t \in {Concat(ps) : ps \in UNION {[1..k -> LongPieces] : k \in 1..MaxLongPieces}} :
        Strip(t) = t}

LongConfigs ==
    [max_chunk_size           : {20},
     chunk_overlap            : 0..MaxOverlap,
     split_by_paragraph       : BOOLEAN,
     force_max_size           : {TRUE},
     distribute_images_evenly : BOOLEAN]

InitLong ==
    /\ config \in LongConfigs
    /\ source_file = <<"d">>
    /\ section = <<"s">>
    /\ page_number = 0
    /\ text \in LongTexts
    /\ images \in {<<>>, <<ImagePath>>}
    /\ SplitterAtEntry
    /\ run = 1
    /\ first_chunks = <<>>
    /\ ElsewhereIdle

SpecLong == InitLong /\ [][Next]_vars

\* C21: when the text with its fenced code replaced by placeholders is within
\* max_chunk_size, the segmenter returns one chunk holding the whole text and
\* all the images, however long the text itself is.
C21_ShortCircuitOnProtectedLength ==
    (pc = "split_done"
        /\ Len(ProtectCodeBlocks(text).protected_text) <= config.max_chunk_size) =>
        /\ Len(chunks) = 1
        /\ chunks[1].text = text
        /\ chunks[1].images = images

----------------------------------------------------------------------------
(* Character windows over sentences *)

MaxTail == 3

\* the characters that may stand at the two last places of a window of 7
CutChars == {"a", ".", "!", "CJK_PERIOD"}

\* five letters, two characters of which each may be a terminator, and a tail
SentenceTexts ==
    {[i \in 1..5 |-> "a"] \o <<c1, c2>> \o [i \in 1..n |-> "a"] :
        c1 \in CutChars, c2 \in CutChars, n \in 1..MaxTail}

InitCut ==
    /\ text \in SentenceTexts
    /\ config \in {WinConfig(7, overlap) : overlap \in 0..MaxOverlap}
    /\ source_file = <<"d">>
    /\ section = <<"s">>
    /\ page_number = 0
    /\ images = <<ImagePath>>
    /\ pc = "window"
    /\ code_blocks = <<>>
    /\ paragraphs = <<>>
    /\ current_chunk_text = <<>>
    /\ current_length = 0
    /\ chunks = <<>>
    /\ remaining_images = <<>>
    /\ seeds = <<>>
    /\ current_seed = <<>>
    /\ run = 1
    /\ first_chunks = <<>>
    /\ ElsewhereIdle

SpecCut == InitCut /\ [][NextWin]_vars

\* the places of a window, counted from its start, that hold a sentence
\* terminator and lie beyond 70% of max_chunk_size
LateTerminators(start, edge) ==
    {k \in 0..(edge - start - 1) :
        /\ text[start + k + 1] \in Range(SentenceSeparators)
        /\ Beyond70Percent(k, config)}

\* C22: a window that stops short of the text is cut just after the sentence
\* terminator nearest to its right edge among those beyond 70% of the window,
\* whichever character it is, and at its right edge when there is none.
C22_CutAtNearestTerminator ==
    \A i \in 1..Len(windows) :
        LET start == windows[i].start
            edge  == Min(start + config.max_chunk_size, Len(text))
            late  == LateTerminators(start, edge)
        IN  edge < Len(text) =>
                windows[i].end =
                    IF late = {} THEN edge
                    ELSE start + 1 + CHOOSE k \in late : \A j \in late : j <= k

----------------------------------------------------------------------------
(* Documents parsed under a config with title_patterns *)

MaxTitleElements == 3

\* a text the pattern of the caller matches and no default pattern does
CallerTitleText == <<"x", "a">>

TitleTexts == {<<"a">>, EnumeratedText, CallerTitleText}

TitleDocxStreams ==
    UNION {[1..n -> {[type |-> "paragraph", text |-> t, images |-> <<>>] :
                        t \in TitleTexts}] : n \in 1..MaxTitleElements}

TitlePdfStreams ==
    UNION {[1..n -> {[category |-> "NarrativeText", text |-> t, page_number |-> 1] :
                        t \in TitleTexts}] : n \in 1..MaxTitleElements}

\* configs made without title_patterns, with an empty list and with one pattern
TitleConfigs ==
    [max_chunk_size           : {9},
     chunk_overlap            : {1},
     split_by_paragraph       : {TRUE},
     split_by_title           : BOOLEAN,
     force_max_size           : {TRUE},
     distribute_images_evenly : {TRUE}]
    \cup
    [max_chunk_size           : {9},
     chunk_overlap            : {1},
     split_by_paragraph       : {TRUE},
     split_by_title           : BOOLEAN,
     force_max_size           : {TRUE},
     distribute_images_evenly : {TRUE},
     title_patterns           : {<<>>, <<CallerPattern>>}]

InitTitle ==
    /\ config \in TitleConfigs
    /\ source_file \in {DocxFile, PdfFile}
    /\ section = <<>>
    /\ page_number = 0
    /\ text = <<>>
    /\ images = <<>>
    /\ pc = "parse"
    /\ code_blocks = <<>>
    /\ paragraphs = <<>>
    /\ current_chunk_text = <<>>
    /\ current_length = 0
    /\ chunks = <<>>
    /\ remaining_images = <<>>
    /\ seeds = <<>>
    /\ current_seed = <<>>
    /\ run = 1
    /\ first_chunks = <<>>
    /\ WindowIdle
    /\ StoreIdle
    /\ BatchIdle
    /\ IndexIdle
    /\ kind = "none"
    /\ extracted_images = <<>>
    /\ content = <<>>
    /\ disk = {}
    /\ elements \in IF source_file = DocxFile THEN TitleDocxStreams ELSE TitlePdfStreams

NextTitle ==
    \/ ParseDocx
    \/ ParsePdf

SpecTitle == InitTitle /\ [][NextTitle]_vars

\* C23: with split_by_title on, a paragraph whose text matches a built-in
\* default pattern starts a new section, whatever title_patterns the config was
\* made with: the paragraph after it is in a chunk of the section it names.
C23_DefaultPatternsAlwaysTried ==
    (pc = "done" /\ config.split_by_title) =>
        \A i \in 1..(Len(elements) - 1) :
            (elements[i].text = EnumeratedText /\ elements[i + 1].text = <<"a">>) =>
                \E c \in 1..Len(chunks) : chunks[c].section = EnumeratedText

----------------------------------------------------------------------------
(* Fenced code protection and restoration, one after the other *)

MaxTripPieces == 3

ManyBlocks == 11

\* f"__CODE_BLOCK_{i}__" without its two leading underscores
PlaceholderTail(i) == SubSeq(Placeholder(i), 3, Len(Placeholder(i)))

\* plain text, a fenced region, the placeholder of index 0 written in the text,
\* a fenced region that holds the placeholder of index 1, and the end of the
\* placeholder of index 0
TripPieces ==
    {<<"a">>,
     Fence \o <<"x">> \o Fence,
     Placeholder(0),
     Fence \o Placeholder(1) \o Fence,
     PlaceholderTail(0)}

\* fenced regions 0 .. n-1, each holding its number, with a blank between two
RECURSIVE FencedRun(_)
FencedRun(n) ==
    IF n = 0 THEN <<>>
    ELSE FencedRun(n - 1) \o (IF n = 1 THEN <<>> ELSE <<" ">>)
         \o Fence \o Digits(n - 1) \o Fence

TripTexts ==
    {Concat(ps) : ps \in UNION {[1..n -> TripPieces] : n \in 0..MaxTripPieces}}
    \cup {FencedRun(ManyBlocks)}

InitTrip ==
    /\ text \in TripTexts
    /\ config \in {WinConfig(7, 0)}
    /\ source_file = <<"d">>
    /\ section = <<"s">>
    /\ page_number = 0
    /\ images = <<>>
    /\ pc = "protect"
    /\ code_blocks = <<>>
    /\ paragraphs = <<>>
    /\ current_chunk_text = <<>>
    /\ current_length = 0
    /\ chunks = <<>>
    /\ remaining_images = <<>>
    /\ seeds = <<>>
    /\ current_seed = <<>>
    /\ run = 1
    /\ first_chunks = <<>>
    /\ ElsewhereIdle

\* protected_text = re.sub(code_block_pattern, protect_code_block, text)
TripProtect ==
    /\ pc = "protect"
    /\ code_blocks' = ProtectCodeBlocks(text).code_blocks
    /\ current_chunk_text' = ProtectCodeBlocks(text).protected_text
    /\ pc' = "protected"
    /\ UNCHANGED <<inputs, history, elsewhere, paragraphs, current_length, chunks,
                   remaining_images, seeds, current_seed>>

\* restore_code_blocks(protected_text)
TripRestore ==
    /\ pc = "protected"
    /\ current_chunk_text' = restore_code_blocks(current_chunk_text, code_blocks)
    /\ pc' = "restored"
    /\ UNCHANGED <<inputs, history, elsewhere, code_blocks, paragraphs, current_length,
                   chunks, remaining_images, seeds, current_seed>>

NextTrip ==
    \/ TripProtect
    \/ TripRestore

SpecTrip == InitTrip /\ [][NextTrip]_vars

\* C24: restoring the placeholders of a protected text in index order gives
\* back the text, whatever it holds: ten fenced regions or more, a placeholder
\* written in the text or in a fenced region.
C24_ProtectRestoreRoundTrip ==
    pc = "restored" => current_chunk_text = text

----------------------------------------------------------------------------
(* _parse_docx over a document body of paragraphs and tables *)

MaxBlocks == 3

\* the blocks of a document body: a paragraph, or a table given by the texts
\* of its cells, row after row
BodyBlocks ==
    {[block |-> "paragraph", style_name |-> NormalStyle,  text |-> <<"a">>,
      drawings |-> <<>>],
     [block |-> "paragraph", style_name |-> NormalStyle,  text |-> <<"b">>,
      drawings |-> <<PngType>>],
     [block |-> "paragraph", style_name |-> HeadingStyle, text |-> <<"h">>,
      drawings |-> <<>>],
     [block |-> "table", cells |-> <<<<"c">>>>],
     [block |-> "table", cells |-> <<<<"c">>, <<" ">>, <<"e">>>>]}

Bodies == UNION {[1..n -> BodyBlocks] : n \in 0..MaxBlocks}

BodyConfigs ==
    [max_chunk_size           : {9},
     chunk_overlap            : {1},
     split_by_paragraph       : BOOLEAN,
     split_by_title           : {TRUE},
     force_max_size           : {TRUE},
     distribute_images_evenly : {FALSE}]

\* doc.paragraphs: the paragraphs of the body, in their order
DocParagraphs(body) == SelectSeq(body, LAMBDA b : b.block = "paragraph")

\* doc.tables: the tables of the body, in their order
DocTables(body) == SelectSeq(body, LAMBDA b : b.block = "table")

\* the elements of the cells of a table: one for every cell whose stripped
\* text is not empty
CellElements(table) ==
    LET cells == SelectSeq(table.cells, LAMBDA c : Strip(c) # <<>>)
    IN  [k \in 1..Len(cells) |->
            [type |-> "paragraph", text |-> Strip(cells[k]), images |-> <<>>]]

\* the for loop over doc.tables, run from its start to its end
TableElementsOf(tables) == Concat([k \in 1..Len(tables) |-> CellElements(tables[k])])

InitBody ==
    /\ config \in BodyConfigs
    /\ source_file = DocxFile
    /\ section = <<>>
    /\ page_number = 0
    /\ text = <<>>
    /\ images = <<>>
    /\ pc = "parse"
    /\ code_blocks = <<>>
    /\ paragraphs = <<>>
    /\ current_chunk_text = <<>>
    /\ current_length = 0
    /\ chunks = <<>>
    /\ remaining_images = <<>>
    /\ seeds = <<>>
    /\ current_seed = <<>>
    /\ run = 1
    /\ first_chunks = <<>>
    /\ WindowIdle
    /\ StoreIdle
    /\ BatchIdle
    /\ IndexIdle
    /\ kind = "none"
    /\ elements = <<>>
    /\ extracted_images = <<>>
    /\ content \in Bodies
    /\ disk = {}

\* _parse_docx, lines 169-220: the document is opened and its paragraphs are
\* visited, their drawings written to image_output_dir
BodyParagraphs ==
    /\ pc = "parse"
    /\ Adapter(source_file) = "docx"
    /\ kind' = "docx"
    /\ elements' = DocxElementsOf(DocParagraphs(content), Stem(source_file), 0, <<>>)
    /\ sink' = sink \cup UNION {Range(e.images) : e \in Range(elements')}
    /\ pc' = "tables"
    /\ UNCHANGED <<inputs, history, segmenter, window, batch, index, jobs, chunks,
                   extracted_images, content, disk>>

\* _parse_docx, lines 222-236: the cells of the tables are visited
BodyTables ==
    /\ pc = "tables"
    /\ elements' = elements \o TableElementsOf(DocTables(content))
    /\ pc' = "chunks"
    /\ UNCHANGED <<inputs, history, segmenter, window, store, batch, index, chunks,
                   kind, extracted_images, content, disk>>

\* _parse_docx, lines 242-245: the return, through _docx_elements_to_chunks
BodyChunks ==
    /\ pc = "chunks"
    /\ chunks' = _docx_elements_to_chunks(elements, source_file, config)
    /\ pc' = "done"
    /\ UNCHANGED <<inputs, history, segmenter, window, store, batch, index,
                   kind, elements, extracted_images, content, disk>>

NextBody ==
    \/ BodyParagraphs
    \/ BodyTables
    \/ BodyChunks

SpecBody == InitBody /\ [][NextBody]_vars

\* the elements of the blocks of a body, taken in the order of the body
RECURSIVE DocumentOrder(_, _, _)
DocumentOrder(body, doc_name, image_index) ==
    IF body = <<>> THEN <<>>
    ELSE LET b == Head(body)
         IN  IF b.block = "table"
             THEN CellElements(b) \o DocumentOrder(Tail(body), doc_name, image_index)
             ELSE WithParagraph(<<>>, b, ParagraphImages(b, doc_name, image_index))
                  \o DocumentOrder(Tail(body), doc_name,
                                   image_index + Len(b.drawings))

\* C25: the element stream of a .docx file lists its paragraphs and its table
\* cells in the order of the document, and the chunks are those of that
\* stream: the text of a table stands between the texts of the paragraphs
\* around it, in the section current there.
C25_DocxDocumentOrder ==
    pc = "done" =>
        /\ elements = DocumentOrder(content, Stem(source_file), 0)
        /\ chunks = _docx_elements_to_chunks(
                        DocumentOrder(content, Stem(source_file), 0), source_file, config)

----------------------------------------------------------------------------
(* The chunk ids of one parse result *)

\* C26: no two chunks of the list a parse returns share a chunk_id, so the
\* ids handed to the vector store as primary keys are all different.
C26_ChunkIdsUnique ==
    pc = "done" =>
        \A i, j \in 1..Len(chunks) : i # j => chunks[i].chunk_id # chunks[j].chunk_id

----------------------------------------------------------------------------
(* rag_store.py: index_chunks and delete_by_source_file *)

\* source files: one, one of the same name in another directory, one whose
\* name ends with the name of the first, and one of another name
RMd  == <<"a", "/", "r", ".", "m", "d">>
BRMd == <<"b", "/", "r", ".", "m", "d">>
XRMd == <<"a", "/", "x", "r", ".", "m", "d">>
QMd  == <<"a", "/", "q", ".", "m", "d">>

StoredPaths == <<RMd, BRMd, XRMd, QMd>>

\* os.path.basename(source_file)
Basename(path) == Slice(path, RFind(path, "/") + 1, Len(path))

\* what the collection keeps of a chunk: ids[i] as primary key and the
\* metadata field source_file
Entity(chunk) == [chunk_id |-> chunk.chunk_id, source_file |-> chunk.source_file]

Entities(cs) == [i \in 1..Len(cs) |-> Entity(cs[i])]

\* collection.delete('source_file like "%<filename>"'): the entities whose
\* source_file ends with filename go; a file name of the model holds no
\* wildcard character
DeleteLike(entities, filename) ==
    SelectSeq(entities, LAMBDA e : ~EndsWith(e.source_file, filename))

\* _delete_by_filename_search: the entities whose primary key is that of an
\* entity whose source_file has the base name filename go
_delete_by_filename_search(entities, filename) ==
    LET ids_to_delete == {entities[i].chunk_id : i \in
                             {k \in 1..Len(entities) :
                                 Basename(entities[k].source_file) = filename}}
    IN  SelectSeq(entities, LAMBDA e : e.chunk_id \notin ids_to_delete)

\* delete_by_source_file on a collection that is loaded and whose schema has
\* the field source_file: the like expression, and the search when it
\* deleted nothing
delete_by_source_file(entities, src) ==
    LET filename == Basename(src)
        kept     == DeleteLike(entities, filename)
    IN  IF Len(kept) < Len(entities) THEN kept
        ELSE _delete_by_filename_search(entities, filename)

\* the chunk of a source file indexed earlier, and chunks parsed now
OldChunk(path) == _create_chunk(<<"o">>, path, <<"s">>, <<>>, 0)
NewChunk(path, t) == _create_chunk(t, path, <<"s">>, <<>>, 0)

\* the collections of the model: of every stored path, its chunk or nothing
Collections ==
    {Concat([k \in 1..Len(StoredPaths) |->
                IF StoredPaths[k] \in present
                THEN <<Entity(OldChunk(StoredPaths[k]))>> ELSE <<>>]) :
        present \in SUBSET Range(StoredPaths)}

IndexedLists ==
    {<<>>,
     <<NewChunk(RMd, <<"a">>)>>,
     <<NewChunk(RMd, <<"a">>), NewChunk(RMd, <<"b">>)>>,
     <<NewChunk(RMd, <<"a">>), NewChunk(QMd, <<"a">>)>>,
     <<NewChunk(XRMd, <<"a">>)>>}

InitStore ==
    /\ config \in {WinConfig(7, 0)}
    /\ source_file = <<>>
    /\ section = <<>>
    /\ page_number = 0
    /\ text = <<>>
    /\ images = <<>>
    /\ pc = "index"
    /\ code_blocks = <<>>
    /\ paragraphs = <<>>
    /\ current_chunk_text = <<>>
    /\ current_length = 0
    /\ chunks \in IndexedLists
    /\ remaining_images = <<>>
    /\ seeds = <<>>
    /\ current_seed = <<>>
    /\ run = 1
    /\ first_chunks = <<>>
    /\ WindowIdle
    /\ DocumentIdle
    /\ StoreIdle
    /\ BatchIdle
    /\ collection \in Collections
    /\ replace_existing \in BOOLEAN
    /\ pending = {}

\* index_chunks, lines 186-194: nothing to index, or the source files of the
\* chunks whose stored chunks are to go first
IndexCall ==
    /\ pc = "index"
    /\ pc' = IF chunks = <<>> THEN "indexed" ELSE "delete"
    /\ pending' = IF chunks # <<>> /\ replace_existing
                  THEN {chunks[i].source_file : i \in 1..Len(chunks)}
                  ELSE {}
    /\ UNCHANGED <<inputs, history, segmenter, window, document, store, batch,
                   chunks, collection, replace_existing>>

\* one turn of the for loop over source_files, a set: delete_by_source_file
DeleteOld ==
    /\ pc = "delete"
    /\ \E src \in pending :
           /\ collection' = delete_by_source_file(collection, src)
           /\ pending' = pending \ {src}
    /\ UNCHANGED <<inputs, history, segmenter, window, document, store, batch,
                   pc, chunks, replace_existing>>

\* lines 196-237: add_documents(documents, ids) inserts one entity per chunk
AddDocuments ==
    /\ pc = "delete"
    /\ pending = {}
    /\ collection' = collection \o Entities(chunks)
    /\ pc' = "indexed"
    /\ UNCHANGED <<inputs, history, segmenter, window, document, store, batch,
                   chunks, replace_existing, pending>>

NextStore ==
    \/ IndexCall
    \/ DeleteOld
    \/ AddDocuments

SpecStore == InitStore /\ [][NextStore]_vars

\* C27: a turn of the delete loop removes the stored chunks of one source
\* file of the new chunks and leaves those of every other source file as they
\* are, and the insertion after the loop adds the new chunks to what is left.
C27_ReplaceConfinedToFile ==
    [][/\ (pc = "delete" /\ pending # {}) =>
              \E src \in pending :
                  /\ pending' = pending \ {src}
                  /\ collection' = SelectSeq(collection,
                                             LAMBDA e : e.source_file # src)
       /\ (pc = "delete" /\ pending = {}) =>
              collection' = collection \o Entities(chunks)]_vars

----------------------------------------------------------------------------
(* The even policy as a partition of the orphan list *)

\* C28: under the even policy the image lists of the chunks, joined in the
\* order of the chunks, are the orphan list: every orphan is in one chunk,
\* none is dropped or doubled, and the order is kept.
C28_OrphanPartition ==
    EvenlyDistributed =>
        Concat([i \in 1..Len(chunks) |-> chunks[i].images]) = remaining_images

\* the even policy ran on more orphans than chunks, with a remainder, and on
\* more than one chunk
C28_Witness ==
    /\ EvenlyDistributed
    /\ Len(chunks) >= 2
    /\ Len(remaining_images) > Len(chunks)
    /\ Len(remaining_images) % Len(chunks) # 0
    /\ chunks[Len(chunks)].images # <<>>

----------------------------------------------------------------------------
(* A pdf parse with placed images and orphans *)

MaxPdfElements == 3
MaxExtracted == 3

PlacedElements ==
    {[category |-> "Title",         text |-> <<"h">>, page_number |-> 1],
     [category |-> "NarrativeText", text |-> <<"a">>, page_number |-> 0],
     [category |-> "Image",         text |-> <<>>,    page_number |-> 0]}

PlacedStreams == UNION {[1..n -> PlacedElements] : n \in 0..MaxPdfElements}

InitPdf ==
    /\ config \in [max_chunk_size           : {3, 9},
                   chunk_overlap            : {1},
                   split_by_paragraph       : {TRUE},
                   split_by_title           : {TRUE},
                   force_max_size           : {TRUE},
                   distribute_images_evenly : BOOLEAN]
    /\ source_file = PdfFile
    /\ section = <<>>
    /\ page_number = 0
    /\ text = <<>>
    /\ images = <<>>
    /\ pc = "parse"
    /\ code_blocks = <<>>
    /\ paragraphs = <<>>
    /\ current_chunk_text = <<>>
    /\ current_length = 0
    /\ chunks = <<>>
    /\ remaining_images = <<>>
    /\ seeds = <<>>
    /\ current_seed = <<>>
    /\ run = 1
    /\ first_chunks = <<>>
    /\ WindowIdle
    /\ StoreIdle
    /\ BatchIdle
    /\ IndexIdle
    /\ kind = "none"
    /\ elements \in PlacedStreams
    /\ extracted_images \in {[i \in 1..m |-> Orphan(i)] : m \in 0..MaxExtracted}
    /\ content = <<>>
    /\ disk = {}

SpecPdf == InitPdf /\ [][ParsePdf]_vars

\* the chunks of the sections, as they are before the distribution pass
BeforeDistribution ==
    AllSectionChunks(PdfSections(elements, config, extracted_images), source_file, config)

\* C29: the distribution pass of a pdf parse only adds: every image a chunk
\* held before the pass is in the image list of that chunk after it.
C29_DistributionKeepsPlaced ==
    pc = "done" =>
        /\ Len(chunks) = Len(BeforeDistribution)
        /\ \A i \in 1..Len(chunks) :
               Range(BeforeDistribution[i].images) \subseteq Range(chunks[i].images)

----------------------------------------------------------------------------
(* Docx element streams whose headings may embed an image *)

MaxHeadElements == 3

HeadElements ==
    {[type |-> "heading",   text |-> <<"h">>,        images |-> <<>>],
     [type |-> "heading",   text |-> <<"h">>,        images |-> <<ImagePath>>],
     [type |-> "heading",   text |-> <<>>,           images |-> <<ImagePath>>],
     [type |-> "paragraph", text |-> <<"a">>,        images |-> <<>>],
     [type |-> "paragraph", text |-> <<>>,           images |-> <<ImagePath>>],
     [type |-> "paragraph", text |-> <<"a">>,        images |-> <<ImagePath>>],
     [type |-> "paragraph", text |-> EnumeratedText, images |-> <<ImagePath>>]}

\* every image file is written once
HeadStreams ==
    {es \in UNION {[1..n -> HeadElements] : n \in 0..MaxHeadElements} :
        Cardinality({i \in 1..Len(es) : es[i].images # <<>>}) <= 1}

InitHead ==
    /\ config \in [max_chunk_size           : {3, 40},
                   chunk_overlap            : {1},
                   split_by_paragraph       : BOOLEAN,
                   split_by_title           : BOOLEAN,
                   force_max_size           : {TRUE},
                   distribute_images_evenly : {FALSE}]
    /\ source_file = DocxFile
    /\ section = <<>>
    /\ page_number = 0
    /\ text = <<>>
    /\ images = <<>>
    /\ pc = "parse"
    /\ code_blocks = <<>>
    /\ paragraphs = <<>>
    /\ current_chunk_text = <<>>
    /\ current_length = 0
    /\ chunks = <<>>
    /\ remaining_images = <<>>
    /\ seeds = <<>>
    /\ current_seed = <<>>
    /\ run = 1
    /\ first_chunks = <<>>
    /\ WindowIdle
    /\ StoreIdle
    /\ BatchIdle
    /\ IndexIdle
    /\ kind = "none"
    /\ elements \in HeadStreams
    /\ extracted_images = <<>>
    /\ content = <<>>
    /\ disk = {}

SpecHead == InitHead /\ [][ParseDocx]_vars

\* C30: every image of every element of a docx stream, a heading that embeds
\* an image included, is in the image list of a chunk of the parse.
C30_NoImageLostByGrouping ==
    pc = "done" =>
        \A k \in 1..Len(elements) :
            \A image \in Range(elements[k].images) :
                \E i \in 1..Len(chunks) : image \in Range(chunks[i].images)
=============================================================================
